---- MODULE Spec2Model ----
(***************************************************************************)
(* Model of the WebSocket connection manager of Eta.Core                   *)
(* (package ws: Manager, Connection, readPump, writePump) together with    *)
(* the callbacks of the PTY handler that it drives.                        *)
(*                                                                         *)
(* Every goroutine of the code is a process of the model: the manager's    *)
(* run loop, one readPump and one writePump per connection, the closer     *)
(* goroutines spawned by BroadcastToPath, and the callers of the public    *)
(* API (CreateConnection, SendMessage, Close, BroadcastToPath).            *)
(* Go channels are bounded FIFO sequences, sync.Mutex is a holder field.   *)
(*                                                                         *)
(* The second part models one process session (package pty: PTY.Start,     *)
(* Stop, WriteInput, ReadOutput and the handlers that call them) with the  *)
(* child processes it spawns: the thread that drives the session, the two  *)
(* scan tasks and the exit-wait task of every ReadOutput call, the waiter  *)
(* goroutine of Stop, and the child processes themselves.                  *)
(***************************************************************************)
EXTENDS Integers, Sequences, FiniteSets, TLC

\* ---------------------------------------------------------------- bounds
\* number of connections CreateConnection may allocate in one behaviour
NConn == 2
\* number of inbound frames the peer of one connection sends
MaxFrames == 2
\* number of frames the senders of one connection put on its Send channel
MaxMsgs == 2
\* number of BroadcastToPath calls in one behaviour
MaxBcast == 1

\* number of exec.Cmd objects PTY.Start creates in one behaviour
MaxCmds == 3
\* number of command frames in the behaviours that also have input frames,
\* and of Start calls a direct caller makes
PtyCmds == 2
\* number of command frames in the behaviours whose processes write output
OutCmds == 1
\* number of input frames in one behaviour
MaxInputs == 3
\* number of lines one child process writes to its output pipes
MaxLines == 1
\* number of runes of the argument strings parseArgs is called with
MaxArgLen == 5

\* the last instant of the clock
MaxTime == 72
\* seconds between two observed instants of the clock
TimeStep == 6
\* number of pong frames the peers send in one behaviour
MaxPongs == 1

\* ------------------------------------------------------ scaled capacities
\* make(chan *Connection, 256) for Manager.register, scaled down
RegisterCap == 1
\* make(chan *Connection, 256) for Manager.unregister, scaled down
UnregisterCap == 1
\* make(chan []byte, 256) for Connection.Send, scaled down
SendCap == 2
\* capacity of the kernel pipe behind Cmd.StdinPipe, in input messages
StdinCap == 2

Conns == 1..NConn
\* paths of the upgrade endpoints; only PtyPath ever gets a handler
PtyPath == "pty"
OtherPath == "other"
Paths == {PtyPath, OtherPath}
\* no RegisterHandler call is between its Lock and its Unlock
NoPath == "none"

NoConn == 0
\* tasks that may be inside Connection.close() of a connection
Free == "free"
\* the zero time.Time: no deadline has been set
NoDeadline == 0
\* readPump: SetReadDeadline(time.Now().Add(60 * time.Second))
ReadWait == 60
\* writePump: time.NewTicker(54 * time.Second)
PingPeriod == 54
\* writePump: SetWriteDeadline(time.Now().Add(10 * time.Second))
WriteWait == 10
Closers == {"rp", "wp", "bc", "ext"}

\* the connection whose session is modelled in detail
Session == 1
\* exec.Cmd objects in the order PTY.Start creates them; 0 is a nil p.Cmd
Gens == 1..MaxCmds
NoCmd == 0
\* ReadOutput calls in the order they are made
Calls == 1..MaxCmds
\* the two output pipes of a child process
Streams == {"stdout", "stderr"}
\* threads that may hold PTY.mutex: the driver of the session (readPump
\* inside HandleMessage, or a direct caller) and Manager.run (HandleClose)
Driver == "drv"
Registry == "mgr"
\* runtime.GOOS values that Stop distinguishes; AnyOS: not consulted so far
AnyOS == "any"
GOOS == {"linux", "windows"}
\* exit status of a process ended by a signal (ExitError.ExitCode() is -1)
SignalExit == 0 - 1
\* exit codes of a process that ends on its own
ExitCodes == {0, 1}

VARIABLES
  handlers,      \* Manager.handlers: set of paths with a handler
  nextId,        \* number of Connection objects allocated so far
  register,      \* Manager.register channel
  unregister,    \* Manager.unregister channel
  connections,   \* Manager.connections: ids in the registry map
  mpc,           \* position of Manager.run
  mcur,          \* connection Manager.run is handling
  closed,        \* Connection.closed
  transport,     \* Connection.Conn: "open" or "closed" (Conn.Close called)
  Send,          \* Connection.Send: buffered frames
  sendClosed,    \* close(conn.Send) has been executed
  cmutex,        \* Connection.mutex: Free or the closer holding it
  rp,            \* position of readPump
  wp,            \* position of writePump
  inbox,         \* frames sent by the peer, not yet returned by ReadMessage
  arrived,       \* number of frames the peer has sent
  rcur,          \* frame readPump passed to HandleMessage
  handled,       \* history: frames for which HandleMessage was invoked
  active,        \* number of HandleMessage invocations in progress
  enqueued,      \* history: number of frames ever put on Send
  written,       \* history: frames written to the transport by writePump
  sendResult,    \* value returned by the last SendMessage call
  bcTodo,        \* BroadcastToPath: connections still to visit (RLock held)
  bcActive,      \* BroadcastToPath holds Manager.mutex.RLock
  nBcast,        \* number of BroadcastToPath calls so far
  bcClosers,     \* goroutines "go conn.close()" not yet run
  unregSent,     \* history: unregister requests submitted for a connection
  closeCalls,    \* history: HandleClose invocations for a connection
  openCalls,     \* history: HandleConnection invocations for a connection
  ptys,          \* PTYManager.ptys: ids with a session
  createResult,  \* result of the last CreateConnection call, or "fatal"
  panicked,      \* a send on a closed channel has panicked the process
  goos,          \* runtime.GOOS, fixed the first time Stop consults it
  Running,       \* PTY.Running
  Cmd,           \* PTY.Cmd (and PTY.Stdin, Stdout, Stderr): current exec.Cmd
  pmutex,        \* PTY.mutex: Free or the thread holding it
  stopPc,        \* position of the Stop call that holds PTY.mutex
  pconn,         \* PTY.conn: NoConn is a nil connection
  proc,          \* state of the child process of each exec.Cmd
  sig,           \* strongest signal sent to each child process
  exitCode,      \* exit status of each child process that has ended
  pipes,         \* the parent's ends of the three pipes of each exec.Cmd
  pipeBuf,       \* lines in each output pipe, not yet read by a scanner
  nLines,        \* number of lines each child process has written
  stdinBuf,      \* inputs in each stdin pipe, not yet read by the process
  stdinGot,      \* history: inputs each child process has read
  hpc,           \* position of the driver thread inside the handler
  hkind,         \* executable named by the command the driver handles
  restart,       \* handleCommand took the branch "if pty.Running"
  hres,          \* result of the last Start, Stop or WriteInput call
  nCmds,         \* number of command frames (or Start calls with a new Cmd)
  nInputs,       \* number of input frames (or WriteInput calls)
  nReads,        \* number of ReadOutput calls
  scan,          \* the scan tasks of each ReadOutput call, per stream
  ew,            \* the exit-wait task of each ReadOutput call
  emitted,       \* history: session messages put on the Send channel
  accepted,      \* history: inputs WriteInput has written, per exec.Cmd
  args,          \* parseArgs: the argument string of the call
  result,        \* parseArgs: the slice the call returned
  ppc,           \* position of the call of parseArgs
  now,           \* time.Now(), in seconds since the program started
  readDeadline,  \* the deadline SetReadDeadline has set on Connection.Conn
  writeDeadline, \* the deadline SetWriteDeadline has set on Connection.Conn
  tickAt,        \* the time the ticker of writePump fires next
  stalled,       \* the peer's side of the transport accepts no more bytes
  lastData,      \* history: the time the peer sent its last data frame
  nPongs,        \* number of pong frames the peers have sent
  regPath,       \* path RegisterHandler is storing under Manager.mutex
  mstop,         \* position of the call of Manager.Stop
  stopTodo       \* Manager.Stop: connections its range has yet to visit

vars == <<handlers, nextId, register, unregister, connections, mpc, mcur,
          closed, transport, Send, sendClosed, cmutex, rp, wp, inbox,
          arrived, rcur, handled, active, enqueued, written, sendResult,
          bcTodo, bcActive, nBcast, bcClosers, unregSent, closeCalls,
          openCalls, ptys, createResult, panicked, goos, Running, Cmd,
          pmutex, stopPc, pconn, proc, sig, exitCode, pipes, pipeBuf,
          nLines, stdinBuf, stdinGot, hpc, hkind, restart, hres, nCmds,
          nInputs, nReads, scan, ew, emitted, accepted, args, result, ppc,
          now, readDeadline, writeDeadline, tickAt, stalled, lastData,
          nPongs, regPath, mstop, stopTodo>>

mgrVars == <<connections, mpc, mcur>>
chanVars == <<register, unregister>>
connVars == <<closed, transport, cmutex>>
queueVars == <<Send, sendClosed, enqueued, sendResult>>
readVars == <<rp, inbox, arrived, rcur, handled, active>>
writeVars == <<wp, written>>
bcVars == <<bcTodo, bcActive, nBcast, bcClosers>>
cbVars == <<unregSent, closeCalls, openCalls, ptys>>
sessVars == <<goos, Running, Cmd, pmutex, stopPc, pconn>>
procVars == <<proc, sig, exitCode, pipes, pipeBuf, nLines, stdinBuf,
              stdinGot>>
drvVars == <<hpc, hkind, restart, hres, nCmds, nInputs>>
taskVars == <<nReads, scan, ew>>
histVars == <<emitted, accepted>>
ptyVars == <<sessVars, procVars, drvVars, taskVars, histVars>>
parseVars == <<args, result, ppc>>
timeVars == <<now, readDeadline, writeDeadline, tickAt, stalled, lastData,
              nPongs>>
lockVars == <<regPath, mstop, stopTodo>>

\* a task of ReadOutput that has not been started, and a scan task that is
\* over
NoTask == [pc |-> "none", g |-> NoCmd, x |-> 0]
DoneTask == [pc |-> "done", g |-> NoCmd, x |-> 0]

ServerInit ==
  /\ handlers = {}
  /\ nextId = 0
  /\ register = <<>>
  /\ unregister = <<>>
  /\ connections = {}
  /\ mpc = "select"
  /\ mcur = NoConn
  /\ closed = [c \in Conns |-> FALSE]
  /\ transport = [c \in Conns |-> "open"]
  /\ Send = [c \in Conns |-> <<>>]
  /\ sendClosed = [c \in Conns |-> FALSE]
  /\ cmutex = [c \in Conns |-> Free]
  /\ rp = [c \in Conns |-> "idle"]
  /\ wp = [c \in Conns |-> "idle"]
  /\ inbox = [c \in Conns |-> <<>>]
  /\ arrived = [c \in Conns |-> 0]
  /\ rcur = [c \in Conns |-> 0]
  /\ handled = [c \in Conns |-> <<>>]
  /\ active = [c \in Conns |-> 0]
  /\ enqueued = [c \in Conns |-> 0]
  /\ written = [c \in Conns |-> <<>>]
  /\ sendResult = "none"
  /\ bcTodo = {}
  /\ bcActive = FALSE
  /\ nBcast = 0
  /\ bcClosers = [c \in Conns |-> 0]
  /\ unregSent = [c \in Conns |-> 0]
  /\ closeCalls = [c \in Conns |-> 0]
  /\ openCalls = [c \in Conns |-> 0]
  /\ ptys = {}
  /\ createResult = "none"
  /\ panicked = FALSE
  /\ goos = AnyOS
  /\ Running = FALSE
  /\ Cmd = NoCmd
  /\ pmutex = Free
  /\ stopPc = "idle"
  /\ pconn = NoConn
  /\ proc = [g \in Gens |-> "none"]
  /\ sig = [g \in Gens |-> "none"]
  /\ exitCode = [g \in Gens |-> 0]
  /\ pipes = [g \in Gens |-> "none"]
  /\ pipeBuf = [g \in Gens |-> [s \in Streams |-> <<>>]]
  /\ nLines = [g \in Gens |-> 0]
  /\ stdinBuf = [g \in Gens |-> <<>>]
  /\ stdinGot = [g \in Gens |-> <<>>]
  /\ hpc = "idle"
  /\ hkind = "none"
  /\ restart = FALSE
  /\ hres = "none"
  /\ nCmds = 0
  /\ nInputs = 0
  /\ nReads = 0
  /\ scan = [r \in Calls |-> [s \in Streams |-> NoTask]]
  /\ ew = [r \in Calls |-> NoTask]
  /\ emitted = <<>>
  /\ accepted = [g \in Gens |-> <<>>]
  /\ now = 0
  /\ readDeadline = [c \in Conns |-> NoDeadline]
  /\ writeDeadline = [c \in Conns |-> NoDeadline]
  /\ tickAt = [c \in Conns |-> NoDeadline]
  /\ stalled = [c \in Conns |-> FALSE]
  /\ lastData = [c \in Conns |-> 0]
  /\ nPongs = 0
  /\ regPath = NoPath
  /\ mstop = "idle"
  /\ stopTodo = {}

\* no call of parseArgs is in progress
Init ==
  /\ ServerInit
  /\ args = <<>>
  /\ result = <<>>
  /\ ppc = "idle"

\* ------------------------------------------------------------- Manager API

\* Manager.mutex is write-locked by a caller of the Manager API:
\* RegisterHandler between its Lock and its Unlock, or Stop during its range.
\* (The manager's own task holds it inside handleRegister and
\* handleUnregister, BroadcastToPath read-locks it while bcActive.)
WriteLocked == regPath # NoPath \/ mstop \in {"range", "blocked"}

\* the manager's task holds Manager.mutex across a step: inside HandleClose
ManagerLocked == mpc \in {"hclose", "hcloseStop"}

\* Manager.RegisterHandler: m.handlers[path] = handler under the write lock,
\* as one step (no lookup runs between its Lock and its Unlock)
RegisterHandler(p) ==
  /\ p = PtyPath
  /\ p \notin handlers
  /\ ~WriteLocked
  /\ handlers' = handlers \cup {p}
  /\ UNCHANGED <<nextId, mgrVars, chanVars, connVars, queueVars, readVars,
                 writeVars, bcVars, cbVars, createResult, panicked,
                 ptyVars, parseVars, timeVars, lockVars>>

\* a CreateConnection that does not look the handler up
CreateConnection_NoLookup(p) ==
  /\ nextId < NConn
  /\ Len(register) < RegisterCap
  /\ nextId' = nextId + 1
  /\ register' = Append(register, nextId + 1)
  /\ createResult' = "ok"
  /\ UNCHANGED <<handlers, unregister, mgrVars, connVars, queueVars,
                 readVars, writeVars, bcVars, cbVars, panicked,
                 ptyVars,
                 parseVars, timeVars, lockVars>>

\* Manager.RegisterHandler, first step: m.mutex.Lock()
RegisterHandlerLock(p) ==
  /\ p = PtyPath
  /\ p \notin handlers
  /\ ~WriteLocked
  /\ ~bcActive
  /\ ~ManagerLocked
  /\ regPath' = p
  /\ UNCHANGED <<handlers, nextId, mgrVars, chanVars, connVars, queueVars,
                 readVars, writeVars, bcVars, cbVars, createResult, panicked,
                 ptyVars, parseVars, timeVars, mstop, stopTodo>>

\* Manager.RegisterHandler, second step: the map store and the deferred
\* Unlock
RegisterHandlerStore ==
  /\ regPath # NoPath
  /\ handlers' = handlers \cup {regPath}
  /\ regPath' = NoPath
  /\ UNCHANGED <<nextId, mgrVars, chanVars, connVars, queueVars,
                 readVars, writeVars, bcVars, cbVars, createResult, panicked,
                 ptyVars, parseVars, timeVars, mstop, stopTodo>>

\* the outcomes of "handler, exists := m.handlers[path]" in
\* CreateConnection, which takes no lock.  A lookup that overlaps the map
\* store of RegisterHandler is a data race: it may see the table before or
\* after the store, or the runtime ends the process with "fatal error:
\* concurrent map read and map write".
Lookup(p) ==
  IF regPath = NoPath
  THEN {IF p \in handlers THEN "found" ELSE "absent"}
  ELSE {"fatal"} \cup (IF p \in handlers \cup {regPath} THEN {"found"} ELSE {})
                 \cup (IF p \in handlers THEN {} ELSE {"absent"})

\* Manager.CreateConnection as called by HTTPHandler.ServeHTTP: without a
\* handler for the path it returns an error; otherwise it allocates the
\* Connection and sends it on the register channel (blocking while full).
CreateConnection(p) ==
  /\ nextId < NConn
  /\ \E o \in Lookup(p) :
       \/ /\ o = "absent"
          /\ createResult' = "nohandler"
          /\ UNCHANGED <<nextId, register>>
       \/ /\ o = "found"
          /\ Len(register) < RegisterCap
          /\ nextId' = nextId + 1
          /\ register' = Append(register, nextId + 1)
          /\ createResult' = "ok"
       \/ /\ o = "fatal"
          /\ createResult' = "fatal"
          /\ UNCHANGED <<nextId, register>>
  /\ UNCHANGED <<handlers, unregister, mgrVars, connVars, queueVars,
                 readVars, writeVars, bcVars, cbVars, panicked,
                 ptyVars, parseVars, timeVars, lockVars>>

\* ------------------------------------------------------- Connection methods

\* a frame as it sits on Connection.Send, identified by its enqueue number
Frame(c) == enqueued[c] + 1

\* a SendMessage that does not test the closed flag
SendMessage_NoClosedTest(c) ==
  /\ cmutex[c] = Free
  /\ IF sendClosed[c]
     THEN /\ panicked' = TRUE
          /\ UNCHANGED <<Send, enqueued, sendResult>>
     ELSE IF Len(Send[c]) < SendCap
     THEN /\ Send' = [Send EXCEPT ![c] = Append(@, Frame(c))]
          /\ enqueued' = [enqueued EXCEPT ![c] = @ + 1]
          /\ sendResult' = "ok"
          /\ UNCHANGED panicked
     ELSE /\ sendResult' = "full"
          /\ UNCHANGED <<Send, enqueued, panicked>>
  /\ UNCHANGED sendClosed

\* a SendMessage that makes room in a full buffer by dropping its oldest frame
SendMessage_DropOldest(c) ==
  /\ cmutex[c] = Free
  /\ IF closed[c]
     THEN /\ sendResult' = "closed"
          /\ UNCHANGED <<Send, enqueued, panicked>>
     ELSE /\ Send' = [Send EXCEPT ![c] =
                       Append(IF Len(@) < SendCap THEN @ ELSE Tail(@),
                              Frame(c))]
          /\ enqueued' = [enqueued EXCEPT ![c] = @ + 1]
          /\ sendResult' = "ok"
          /\ UNCHANGED panicked
  /\ UNCHANGED sendClosed

\* Connection.SendMessage: under c.mutex, refuse when closed, otherwise a
\* non-blocking send on c.Send (a send on a closed channel panics).
SendMessage(c) ==
  /\ cmutex[c] = Free
  /\ IF closed[c]
     THEN /\ sendResult' = "closed"
          /\ UNCHANGED <<Send, enqueued, panicked>>
     ELSE IF sendClosed[c]
     THEN /\ panicked' = TRUE
          /\ UNCHANGED <<Send, enqueued, sendResult>>
     ELSE IF Len(Send[c]) < SendCap
     THEN /\ Send' = [Send EXCEPT ![c] = Append(@, Frame(c))]
          /\ enqueued' = [enqueued EXCEPT ![c] = @ + 1]
          /\ sendResult' = "ok"
          /\ UNCHANGED panicked
     ELSE /\ sendResult' = "full"
          /\ UNCHANGED <<Send, enqueued, panicked>>
  /\ UNCHANGED sendClosed

\* the call would put a frame on c.Send
WouldEnqueue(c) == ~closed[c] /\ Len(Send[c]) < SendCap

\* a close() without the "if !c.closed" guard
close_Unguarded(c, t) ==
  /\ cmutex[c] = Free
  /\ closed' = [closed EXCEPT ![c] = TRUE]
  /\ transport' = [transport EXCEPT ![c] = "closed"]
  /\ IF Len(unregister) < UnregisterCap
     THEN /\ unregister' = Append(unregister, c)
          /\ unregSent' = [unregSent EXCEPT ![c] = @ + 1]
          /\ UNCHANGED cmutex
     ELSE /\ cmutex' = [cmutex EXCEPT ![c] = t]
          /\ UNCHANGED <<unregister, unregSent>>

\* Connection.close, entered by task t: under c.mutex, the first caller sets
\* the closed flag, closes the transport and sends the connection on the
\* unregister channel.  The send blocks while the channel is full, and the
\* caller keeps c.mutex while it is blocked.
close(c, t) ==
  /\ cmutex[c] = Free
  /\ IF closed[c]
     THEN UNCHANGED <<closed, transport, cmutex, unregister, unregSent>>
     ELSE /\ closed' = [closed EXCEPT ![c] = TRUE]
          /\ transport' = [transport EXCEPT ![c] = "closed"]
          /\ IF Len(unregister) < UnregisterCap
             THEN /\ unregister' = Append(unregister, c)
                  /\ unregSent' = [unregSent EXCEPT ![c] = @ + 1]
                  /\ UNCHANGED cmutex
             ELSE /\ cmutex' = [cmutex EXCEPT ![c] = t]
                  /\ UNCHANGED <<unregister, unregSent>>

\* the blocked send of close() completes once the unregister channel has
\* room; the deferred Unlock follows
closeResume(c, t) ==
  /\ cmutex[c] = t
  /\ Len(unregister) < UnregisterCap
  /\ unregister' = Append(unregister, c)
  /\ unregSent' = [unregSent EXCEPT ![c] = @ + 1]
  /\ cmutex' = [cmutex EXCEPT ![c] = Free]
  /\ UNCHANGED <<closed, transport>>

\* ------------------------------------------------------------- Manager.run

\* Manager.run: case conn := <-m.register
RecvRegister ==
  /\ mpc = "select"
  /\ register # <<>>
  /\ mcur' = Head(register)
  /\ register' = Tail(register)
  /\ mpc' = "register"
  /\ UNCHANGED <<handlers, nextId, unregister, connections, connVars,
                 queueVars, readVars, writeVars, bcVars, cbVars,
                 createResult, panicked,
                 ptyVars, parseVars, timeVars, lockVars>>

\* Manager.run: case conn := <-m.unregister
RecvUnregister ==
  /\ mpc = "select"
  /\ unregister # <<>>
  /\ mcur' = Head(unregister)
  /\ unregister' = Tail(unregister)
  /\ mpc' = "unregister"
  /\ UNCHANGED <<handlers, nextId, register, connections, connVars,
                 queueVars, readVars, writeVars, bcVars, cbVars,
                 createResult, panicked,
                 ptyVars, parseVars, timeVars, lockVars>>

\* Manager.handleRegister up to the handler callback: store the connection
\* under the write lock, then start readPump and writePump
handleRegister ==
  /\ mpc = "register"
  /\ ~bcActive
  /\ ~WriteLocked
  /\ connections' = connections \cup {mcur}
  /\ rp' = [rp EXCEPT ![mcur] = "read"]
  /\ wp' = [wp EXCEPT ![mcur] = "run"]
  /\ mpc' = "connect"
  /\ readDeadline' = [readDeadline EXCEPT ![mcur] = now + ReadWait]
  /\ tickAt' = [tickAt EXCEPT ![mcur] = now + PingPeriod]
  /\ UNCHANGED <<handlers, nextId, chanVars, mcur, connVars, queueVars,
                 inbox, arrived, rcur, handled, active, written, bcVars,
                 cbVars, createResult, panicked,
                 ptyVars, parseVars, now, writeDeadline,
                 stalled, lastData, nPongs, lockVars>>

\* the non-blocking send of SendMessage would put a frame on c.Send
Enqueues(c) == ~closed[c] /\ ~sendClosed[c] /\ Len(Send[c]) < SendCap

\* messages of the session as they are recorded in the history "emitted":
\* <<type, exec.Cmd the message is about, line number or exit code>>
Msg(type, g, x) == <<type, g, x>>

\* PTYHandler.HandleConnection, called by handleRegister on the manager's
\* task: a new PTY{Running: false, conn: conn}, AddPTY, then SendMessage of
\* the welcome frame
HandleConnection ==
  /\ mpc = "connect"
  /\ SendMessage(mcur)
  /\ ptys' = ptys \cup {mcur}
  /\ openCalls' = [openCalls EXCEPT ![mcur] = @ + 1]
  /\ pconn' = IF mcur = Session THEN mcur ELSE pconn
  /\ emitted' = IF mcur = Session /\ Enqueues(mcur)
                THEN Append(emitted, Msg("welcome", NoCmd, 0))
                ELSE emitted
  /\ mpc' = "select"
  /\ mcur' = NoConn
  /\ UNCHANGED <<handlers, nextId, chanVars, connections, connVars,
                 readVars, writeVars, bcVars, unregSent, closeCalls,
                 createResult, goos, Running, Cmd, pmutex, stopPc, procVars,
                 drvVars, taskVars, accepted, parseVars, timeVars, lockVars>>

\* PTY.Stop returns at once: "if !p.Running || p.Cmd == nil"
StopIsNoop == ~Running \/ Cmd = NoCmd

\* Manager.handleUnregister: under the write lock; a connection still in the
\* map is deleted, its Send channel closed and HandleClose called.
\* PTYHandler.HandleClose calls pty.Stop() and RemovePTY: when Stop has
\* nothing to stop and PTY.mutex is free the callback completes here,
\* otherwise the manager goes on in HandleClose with the write lock held.
handleUnregister ==
  /\ mpc = "unregister"
  /\ ~bcActive
  /\ ~WriteLocked
  /\ IF mcur \in connections
     THEN /\ connections' = connections \ {mcur}
          /\ IF sendClosed[mcur]
             THEN panicked' = TRUE /\ UNCHANGED sendClosed
             ELSE /\ sendClosed' = [sendClosed EXCEPT ![mcur] = TRUE]
                  /\ UNCHANGED panicked
          /\ closeCalls' = [closeCalls EXCEPT ![mcur] = @ + 1]
          /\ IF mcur = pconn /\ mcur \in ptys
                /\ (pmutex # Free \/ ~StopIsNoop)
             THEN /\ mpc' = "hclose"
                  /\ UNCHANGED <<ptys, mcur>>
             ELSE /\ ptys' = ptys \ {mcur}
                  /\ mpc' = "select"
                  /\ mcur' = NoConn
     ELSE /\ mpc' = "select"
          /\ mcur' = NoConn
          /\ UNCHANGED <<connections, sendClosed, closeCalls, ptys, panicked>>
  /\ UNCHANGED <<handlers, nextId, chanVars, connVars, Send, enqueued,
                 sendResult, readVars, writeVars, bcVars, unregSent,
                 openCalls, createResult, ptyVars, parseVars, timeVars,
                 lockVars>>

\* ---------------------------------------------------------------- readPump

\* the peer sends a frame on an open transport
PeerSend(c) ==
  /\ c <= nextId
  /\ transport[c] = "open"
  /\ arrived[c] < MaxFrames
  /\ arrived' = [arrived EXCEPT ![c] = @ + 1]
  /\ inbox' = [inbox EXCEPT ![c] = Append(@, arrived[c] + 1)]
  /\ lastData' = [lastData EXCEPT ![c] = now]
  /\ UNCHANGED <<handlers, nextId, mgrVars, chanVars, connVars, queueVars,
                 rp, rcur, handled, active, writeVars, bcVars, cbVars,
                 createResult, panicked,
                 ptyVars, parseVars, now, readDeadline,
                 writeDeadline, tickAt, stalled, nPongs, lockVars>>

\* a ReadMessage that returns the newest pending frame first
NextInbound_Newest(q) == q[Len(q)]

\* the frame c.Conn.ReadMessage returns from the pending frames
NextInbound(q) == Head(q)

\* readPump: ReadMessage returns a frame and HandleMessage is called with it
ReadMessage(c) ==
  /\ rp[c] = "read"
  /\ transport[c] = "open"
  /\ inbox[c] # <<>>
  /\ LET f == NextInbound(inbox[c]) IN
       /\ rcur' = [rcur EXCEPT ![c] = f]
       /\ inbox' = [inbox EXCEPT ![c] = SelectSeq(@, LAMBDA x : x # f)]
       /\ handled' = [handled EXCEPT ![c] = Append(@, f)]
  /\ active' = [active EXCEPT ![c] = @ + 1]
  /\ rp' = [rp EXCEPT ![c] = "handle"]
  /\ UNCHANGED <<handlers, nextId, mgrVars, chanVars, connVars, queueVars,
                 arrived, writeVars, bcVars, cbVars, createResult, panicked,
                 ptyVars, parseVars, timeVars, lockVars>>

\* PTYHandler.HandleMessage runs on readPump's task and answers the frame
\* with one SendMessage (pong, info or error frame), then returns
HandleMessageReply(c) ==
  /\ rp[c] = "handle"
  /\ WouldEnqueue(c) => enqueued[c] < MaxMsgs
  /\ SendMessage(c)
  /\ active' = [active EXCEPT ![c] = @ - 1]
  /\ rcur' = [rcur EXCEPT ![c] = 0]
  /\ rp' = [rp EXCEPT ![c] = "read"]
  /\ UNCHANGED <<handlers, nextId, mgrVars, chanVars, connVars, inbox,
                 arrived, handled, writeVars, bcVars, cbVars, createResult,
                 ptyVars, parseVars, timeVars, lockVars>>

\* PTYHandler.HandleMessage returns without sending (a non-text frame, or
\* input written to the process)
HandleMessageSilent(c) ==
  /\ rp[c] = "handle"
  /\ active' = [active EXCEPT ![c] = @ - 1]
  /\ rcur' = [rcur EXCEPT ![c] = 0]
  /\ rp' = [rp EXCEPT ![c] = "read"]
  /\ UNCHANGED <<handlers, nextId, mgrVars, chanVars, connVars, queueVars,
                 inbox, arrived, handled, writeVars, bcVars, cbVars,
                 createResult, panicked,
                 ptyVars, parseVars, timeVars, lockVars>>

\* readPump: ReadMessage returns an error (transport closed, peer gone or
\* read deadline exceeded); the loop breaks and the deferred c.close() runs
ReadError(c) ==
  /\ rp[c] = "read"
  /\ close(c, "rp")
  /\ rp' = [rp EXCEPT ![c] = IF cmutex'[c] = "rp" THEN "blocked" ELSE "done"]
  /\ UNCHANGED <<handlers, nextId, register, mgrVars, queueVars, inbox,
                 arrived, rcur, handled, active, writeVars, bcVars,
                 closeCalls, openCalls, ptys, createResult, panicked,
                 ptyVars, parseVars, timeVars, lockVars>>

\* readPump: the send on the unregister channel inside close() completes
ReadCloseResume(c) ==
  /\ rp[c] = "blocked"
  /\ closeResume(c, "rp")
  /\ rp' = [rp EXCEPT ![c] = "done"]
  /\ UNCHANGED <<handlers, nextId, register, mgrVars, queueVars, inbox,
                 arrived, rcur, handled, active, writeVars, bcVars,
                 closeCalls, openCalls, ptys, createResult, panicked,
                 ptyVars, parseVars, timeVars, lockVars>>

\* --------------------------------------------------------------- writePump

\* a receive that takes the newest frame of c.Send first
NextOutbound_Newest(q) == q[Len(q)]

\* the frame writePump receives from c.Send
NextOutbound(q) == Head(q)

\* writePump: case message, ok := <-c.Send with ok, and WriteMessage
\* succeeds: the frame is on the transport
WriteFrame(c) ==
  /\ wp[c] = "run"
  /\ Send[c] # <<>>
  /\ transport[c] = "open"
  /\ LET f == NextOutbound(Send[c]) IN
       /\ Send' = [Send EXCEPT ![c] = SelectSeq(@, LAMBDA x : x # f)]
       /\ written' = [written EXCEPT ![c] = Append(@, f)]
  /\ UNCHANGED <<handlers, nextId, mgrVars, chanVars, connVars, sendClosed,
                 enqueued, sendResult, readVars, wp, bcVars, cbVars,
                 createResult, panicked,
                 ptyVars, parseVars, timeVars, lockVars>>

\* writePump: case message, ok := <-c.Send with ok, and WriteMessage fails
\* (transport closed, peer gone or write deadline exceeded): the loop returns
WriteFrameError(c) ==
  /\ wp[c] = "run"
  /\ Send[c] # <<>>
  /\ LET f == NextOutbound(Send[c]) IN
       Send' = [Send EXCEPT ![c] = SelectSeq(@, LAMBDA x : x # f)]
  /\ wp' = [wp EXCEPT ![c] = "close"]
  /\ UNCHANGED <<handlers, nextId, mgrVars, chanVars, connVars, sendClosed,
                 enqueued, sendResult, readVars, written, bcVars, cbVars,
                 createResult, panicked,
                 ptyVars, parseVars, timeVars, lockVars>>

\* writePump: case message, ok := <-c.Send with !ok (channel closed and
\* drained): a close frame is attempted and the loop returns
WriteChanClosed(c) ==
  /\ wp[c] = "run"
  /\ Send[c] = <<>>
  /\ sendClosed[c]
  /\ wp' = [wp EXCEPT ![c] = "close"]
  /\ UNCHANGED <<handlers, nextId, mgrVars, chanVars, connVars, queueVars,
                 readVars, written, bcVars, cbVars, createResult, panicked,
                 ptyVars, parseVars, timeVars, lockVars>>

\* writePump: case <-ticker.C with a failing ping write (always fails on a
\* closed transport, may fail on an open one); a successful ping changes
\* nothing
WriteTickError(c) ==
  /\ wp[c] = "run"
  /\ wp' = [wp EXCEPT ![c] = "close"]
  /\ UNCHANGED <<handlers, nextId, mgrVars, chanVars, connVars, queueVars,
                 readVars, written, bcVars, cbVars, createResult, panicked,
                 ptyVars, parseVars, timeVars, lockVars>>

\* writePump: deferred c.close()
WriteClose(c) ==
  /\ wp[c] = "close"
  /\ close(c, "wp")
  /\ wp' = [wp EXCEPT ![c] = IF cmutex'[c] = "wp" THEN "blocked" ELSE "done"]
  /\ UNCHANGED <<handlers, nextId, register, mgrVars, queueVars, readVars,
                 written, bcVars, closeCalls, openCalls, ptys, createResult,
                 panicked,
                 ptyVars, parseVars, timeVars, lockVars>>

WriteCloseResume(c) ==
  /\ wp[c] = "blocked"
  /\ closeResume(c, "wp")
  /\ wp' = [wp EXCEPT ![c] = "done"]
  /\ UNCHANGED <<handlers, nextId, register, mgrVars, queueVars, readVars,
                 written, bcVars, closeCalls, openCalls, ptys, createResult,
                 panicked,
                 ptyVars, parseVars, timeVars, lockVars>>

\* ------------------------------------------------- callers of the public API

\* PTY.sendMessage from the stdout scan, stderr scan and exit-wait tasks of
\* the session: conn.SendMessage on their own goroutines
OutputSend(c) ==
  /\ openCalls[c] > 0
  /\ WouldEnqueue(c) => enqueued[c] < MaxMsgs
  /\ SendMessage(c)
  /\ UNCHANGED <<handlers, nextId, mgrVars, chanVars, connVars, readVars,
                 writeVars, bcVars, cbVars, createResult,
                 ptyVars, parseVars, timeVars, lockVars>>

\* Connection.Close called by the handler that owns the connection
HandlerClose(c) ==
  /\ openCalls[c] > 0
  /\ cmutex[c] # "ext"
  /\ close(c, "ext")
  /\ UNCHANGED <<handlers, nextId, register, mgrVars, queueVars, readVars,
                 writeVars, bcVars, closeCalls, openCalls, ptys,
                 createResult, panicked,
                 ptyVars, parseVars, timeVars, lockVars>>

HandlerCloseResume(c) ==
  /\ closeResume(c, "ext")
  /\ UNCHANGED <<handlers, nextId, register, mgrVars, queueVars, readVars,
                 writeVars, bcVars, closeCalls, openCalls, ptys,
                 createResult, panicked,
                 ptyVars, parseVars, timeVars, lockVars>>

\* Connection.Close called by the code that holds the connection returned
\* by CreateConnection, before the manager has registered the connection
CreatorClose(c) ==
  /\ c <= nextId
  /\ c \notin connections
  /\ closeCalls[c] = 0
  /\ cmutex[c] # "ext"
  /\ close(c, "ext")
  /\ UNCHANGED <<handlers, nextId, register, mgrVars, queueVars, readVars,
                 writeVars, bcVars, closeCalls, openCalls, ptys,
                 createResult, panicked,
                 ptyVars, parseVars, timeVars, lockVars>>

\* ------------------------------------------------------------ Manager.Stop

\* Manager.Stop: m.running = false (read by Start only) and m.mutex.Lock();
\* the range is over the map as it is while the lock is held
ManagerStopLock ==
  /\ mstop = "idle"
  /\ ~WriteLocked
  /\ ~ManagerLocked
  /\ ~bcActive
  /\ mstop' = "range"
  /\ stopTodo' = connections
  /\ UNCHANGED <<handlers, nextId, mgrVars, chanVars, connVars, queueVars,
                 readVars, writeVars, bcVars, cbVars, createResult,
                 panicked, ptyVars, parseVars, timeVars, regPath>>

\* Manager.Stop, one iteration of the range (in the order of the map, which
\* is arbitrary): conn.close(), which waits inside its send on the
\* unregister channel while that channel is full
ManagerStopVisit(c) ==
  /\ mstop = "range"
  /\ c \in stopTodo
  /\ close(c, "stop")
  /\ stopTodo' = stopTodo \ {c}
  /\ mstop' = IF cmutex'[c] = "stop" THEN "blocked" ELSE "range"
  /\ UNCHANGED <<handlers, nextId, register, mgrVars, queueVars, readVars,
                 writeVars, bcVars, closeCalls, openCalls, ptys,
                 createResult, panicked,
                 ptyVars, parseVars, timeVars, regPath>>

\* Manager.Stop: the send on the unregister channel inside close() completes
ManagerStopResume(c) ==
  /\ mstop = "blocked"
  /\ closeResume(c, "stop")
  /\ mstop' = "range"
  /\ UNCHANGED <<handlers, nextId, register, mgrVars, queueVars, readVars,
                 writeVars, bcVars, closeCalls, openCalls, ptys,
                 createResult, panicked,
                 ptyVars, parseVars, timeVars, regPath, stopTodo>>

\* Manager.Stop: the range is over, m.mutex.Unlock() and return
ManagerStopUnlock ==
  /\ mstop = "range"
  /\ stopTodo = {}
  /\ mstop' = "done"
  /\ UNCHANGED <<handlers, nextId, mgrVars, chanVars, connVars, queueVars,
                 readVars, writeVars, bcVars, cbVars, createResult,
                 panicked, ptyVars, parseVars, timeVars, regPath, stopTodo>>

\* ---------------------------------------------------------- BroadcastToPath

\* BroadcastToPath: m.mutex.RLock(); the range is over the map as it is
\* while the read lock is held
BroadcastStart ==
  /\ nBcast < MaxBcast
  /\ ~bcActive
  /\ ~ManagerLocked
  /\ ~WriteLocked
  /\ bcActive' = TRUE
  /\ bcTodo' = connections
  /\ nBcast' = nBcast + 1
  /\ UNCHANGED <<handlers, nextId, mgrVars, chanVars, connVars, queueVars,
                 readVars, writeVars, bcClosers, cbVars, createResult,
                 panicked,
                 ptyVars, parseVars, timeVars, lockVars>>

\* BroadcastToPath, one iteration: non-blocking send on conn.Send, and
\* "go conn.close()" when the buffer is full
BroadcastVisit(c) ==
  /\ bcActive
  /\ c \in bcTodo
  /\ bcTodo' = bcTodo \ {c}
  /\ IF sendClosed[c]
     THEN /\ panicked' = TRUE
          /\ UNCHANGED <<Send, enqueued, bcClosers>>
     ELSE IF Len(Send[c]) < SendCap
     THEN /\ Send' = [Send EXCEPT ![c] = Append(@, Frame(c))]
          /\ enqueued' = [enqueued EXCEPT ![c] = @ + 1]
          /\ UNCHANGED <<bcClosers, panicked>>
     ELSE /\ bcClosers' = [bcClosers EXCEPT ![c] = @ + 1]
          /\ UNCHANGED <<Send, enqueued, panicked>>
  /\ UNCHANGED <<handlers, nextId, mgrVars, chanVars, connVars, sendClosed,
                 sendResult, readVars, writeVars, bcActive, nBcast, cbVars,
                 createResult,
                 ptyVars, parseVars, timeVars, lockVars>>

\* BroadcastToPath: deferred m.mutex.RUnlock()
BroadcastEnd ==
  /\ bcActive
  /\ bcTodo = {}
  /\ bcActive' = FALSE
  /\ UNCHANGED <<handlers, nextId, mgrVars, chanVars, connVars, queueVars,
                 readVars, writeVars, bcTodo, nBcast, bcClosers, cbVars,
                 createResult, panicked,
                 ptyVars, parseVars, timeVars, lockVars>>

\* the goroutine started by "go conn.close()"
BroadcastCloser(c) ==
  /\ bcClosers[c] > 0
  /\ cmutex[c] # "bc"
  /\ close(c, "bc")
  /\ bcClosers' = [bcClosers EXCEPT ![c] = @ - 1]
  /\ UNCHANGED <<handlers, nextId, register, mgrVars, queueVars, readVars,
                 writeVars, bcTodo, bcActive, nBcast, closeCalls, openCalls,
                 ptys, createResult, panicked,
                 ptyVars, parseVars, timeVars, lockVars>>

BroadcastCloserResume(c) ==
  /\ closeResume(c, "bc")
  /\ UNCHANGED <<handlers, nextId, register, mgrVars, queueVars, readVars,
                 writeVars, bcVars, closeCalls, openCalls, ptys,
                 createResult, panicked,
                 ptyVars, parseVars, timeVars, lockVars>>

\* ------------------------------------------------------------- PTY methods

\* variables of the connection manager that no step of a session touches
wsVars == <<handlers, nextId, mgrVars, chanVars, connVars, writeVars,
            bcVars, cbVars, createResult>>

\* number of exec.Cmd objects Start has created
NumCmds == Cardinality({g \in Gens : proc[g] # "none"})

\* PTY.sendMessage: an error for a nil p.conn, otherwise conn.SendMessage;
\* PTYHandler.sendError is conn.SendMessage with an error-typed message
sendMessage(m) ==
  IF pconn = NoConn
  THEN UNCHANGED <<queueVars, panicked, emitted>>
  ELSE /\ SendMessage(pconn)
       /\ emitted' = IF Enqueues(pconn) THEN Append(emitted, m) ELSE emitted

\* a Start that does not test p.Running
StartBegin_NoCheck ==
  /\ pmutex = Free
  /\ NumCmds < MaxCmds
  /\ Cmd' = NumCmds + 1
  /\ proc' = [proc EXCEPT ![NumCmds + 1] = "created"]
  /\ pipes' = [pipes EXCEPT ![NumCmds + 1] = "open"]
  /\ pmutex' = Driver
  /\ UNCHANGED hres

\* PTY.Start up to Cmd.Start(): Lock, the already-running error, otherwise
\* p.Cmd = exec.Command(...) and the three pipes of the new exec.Cmd
StartBegin ==
  /\ pmutex = Free
  /\ IF Running
     THEN /\ hres' = "already"
          /\ UNCHANGED <<Cmd, proc, pipes, pmutex>>
     ELSE /\ Cmd' = NumCmds + 1
          /\ proc' = [proc EXCEPT ![NumCmds + 1] = "created"]
          /\ pipes' = [pipes EXCEPT ![NumCmds + 1] = "open"]
          /\ pmutex' = Driver
          /\ UNCHANGED hres

\* a Start that sets p.Running whether or not Cmd.Start() succeeded
StartEnd_AlwaysRunning(exe) ==
  /\ pmutex = Driver
  /\ proc[Cmd] = "created"
  /\ IF exe = "good"
     THEN /\ proc' = [proc EXCEPT ![Cmd] = "alive"]
          /\ hres' = "ok"
          /\ UNCHANGED pipes
     ELSE /\ proc' = [proc EXCEPT ![Cmd] = "failed"]
          /\ pipes' = [pipes EXCEPT ![Cmd] = "closed"]
          /\ hres' = "failed"
  /\ Running' = TRUE
  /\ pmutex' = Free

\* PTY.Start from Cmd.Start() on: the child process runs and p.Running is
\* set, or Cmd.Start() fails (it closes the pipes) and Start returns the
\* error; the deferred Unlock
StartEnd(exe) ==
  /\ pmutex = Driver
  /\ proc[Cmd] = "created"
  /\ IF exe = "good"
     THEN /\ proc' = [proc EXCEPT ![Cmd] = "alive"]
          /\ Running' = TRUE
          /\ hres' = "ok"
          /\ UNCHANGED pipes
     ELSE /\ proc' = [proc EXCEPT ![Cmd] = "failed"]
          /\ pipes' = [pipes EXCEPT ![Cmd] = "closed"]
          /\ hres' = "failed"
          /\ UNCHANGED Running
  /\ pmutex' = Free

\* Cmd.Process != nil: Cmd.Start() has succeeded for the exec.Cmd
Started(g) == proc[g] \in {"alive", "zombie", "reaped"}

\* the child process has ended (it may not have been waited for yet)
Exited(g) == proc[g] \in {"zombie", "reaped"}

\* a Stop whose early return tests only p.Cmd == nil
StopBegin_NoRunningCheck(t) ==
  /\ pmutex = Free
  /\ IF Cmd = NoCmd
     THEN UNCHANGED <<goos, Running, pmutex, stopPc, sig, pipes>>
     ELSE IF ~Started(Cmd)
     THEN /\ pipes' = [pipes EXCEPT ![Cmd] = "closed"]
          /\ Running' = FALSE
          /\ UNCHANGED <<goos, pmutex, stopPc, sig>>
     ELSE \E os \in GOOS :
            /\ goos \in {AnyOS, os}
            /\ goos' = os
            /\ IF os = "windows"
               THEN /\ sig' = [sig EXCEPT ![Cmd] = "kill"]
                    /\ pipes' = [pipes EXCEPT ![Cmd] = "closed"]
                    /\ Running' = FALSE
                    /\ UNCHANGED <<pmutex, stopPc>>
               ELSE /\ sig' = [sig EXCEPT ![Cmd] =
                                 IF @ = "none" THEN "term" ELSE @]
                    /\ pmutex' = t
                    /\ stopPc' = "select"
                    /\ UNCHANGED <<Running, pipes>>

\* PTY.Stop, entered by thread t: Lock and the early return.  With a process
\* handle the Windows build kills without waiting, closes the pipes and
\* clears p.Running at once; the other builds send SIGTERM, start the
\* goroutine "done <- p.Cmd.Wait()" and wait in the select with PTY.mutex
\* held.
StopBegin(t) ==
  /\ pmutex = Free
  /\ IF StopIsNoop
     THEN UNCHANGED <<goos, Running, pmutex, stopPc, sig, pipes>>
     ELSE IF ~Started(Cmd)
     THEN /\ pipes' = [pipes EXCEPT ![Cmd] = "closed"]
          /\ Running' = FALSE
          /\ UNCHANGED <<goos, pmutex, stopPc, sig>>
     ELSE \E os \in GOOS :
            /\ goos \in {AnyOS, os}
            /\ goos' = os
            /\ IF os = "windows"
               THEN /\ sig' = [sig EXCEPT ![Cmd] = "kill"]
                    /\ pipes' = [pipes EXCEPT ![Cmd] = "closed"]
                    /\ Running' = FALSE
                    /\ UNCHANGED <<pmutex, stopPc>>
               ELSE /\ sig' = [sig EXCEPT ![Cmd] =
                                 IF @ = "none" THEN "term" ELSE @]
                    /\ pmutex' = t
                    /\ stopPc' = "select"
                    /\ UNCHANGED <<Running, pipes>>

\* what a returning Cmd.Wait() of exec.Cmd g does: the caller that finds the
\* ended process unwaited collects it, and the parent's pipe ends are closed
\* (without a process handle Wait fails before either)
CmdWait(g) ==
  /\ proc' = [proc EXCEPT ![g] = IF @ = "zombie" THEN "reaped" ELSE @]
  /\ pipes' = [pipes EXCEPT ![g] = IF Started(g) THEN "closed" ELSE @]

\* the goroutine of Stop: p.Cmd.Wait() returns when the child process has
\* ended, and the result is sent on the channel done
StopWaiter ==
  /\ stopPc \in {"select", "killed"}
  /\ Exited(Cmd)
  /\ CmdWait(Cmd)
  /\ stopPc' = IF stopPc = "select" THEN "selectDone" ELSE "killedDone"
  /\ UNCHANGED <<wsVars, queueVars, readVars, panicked, goos, Running, Cmd,
                 pmutex, pconn, sig, exitCode, pipeBuf, nLines, stdinBuf,
                 stdinGot, drvVars, taskVars, histVars, parseVars, timeVars,
                 lockVars>>

\* Stop: case <-time.After(3 * time.Second): Process.Kill(), then <-done
StopTimeout ==
  /\ stopPc \in {"select", "selectDone"}
  /\ sig' = [sig EXCEPT ![Cmd] = "kill"]
  /\ stopPc' = IF stopPc = "select" THEN "killed" ELSE "killedDone"
  /\ UNCHANGED <<wsVars, queueVars, readVars, panicked, goos, Running, Cmd,
                 pmutex, pconn, proc, exitCode, pipes, pipeBuf, nLines,
                 stdinBuf, stdinGot, drvVars, taskVars, histVars, parseVars,
                 timeVars, lockVars>>

\* PTY.Stop after a value has arrived on done: the three pipes are closed,
\* p.Running = false, the deferred Unlock
StopEnd(t) ==
  /\ pmutex = t
  /\ stopPc \in {"selectDone", "killedDone"}
  /\ pipes' = [pipes EXCEPT ![Cmd] = "closed"]
  /\ Running' = FALSE
  /\ pmutex' = Free
  /\ stopPc' = "idle"

\* p.Stdin.Write fails: the pipe is closed or its reader has ended
WriteFails(g) == pipes[g] # "open" \/ proc[g] # "alive"

\* a Write that puts the input in front of the bytes already in the pipe
PipeWrite_Front(buf, i) == <<i>> \o buf

\* p.Stdin.Write: the bytes are appended to those in the pipe
PipeWrite(buf, i) == Append(buf, i)

\* a WriteInput that does not test p.Running
WriteInput_NoCheck(i) ==
  /\ pmutex = Free
  /\ Cmd # NoCmd
  /\ IF WriteFails(Cmd)
     THEN /\ hres' = "ioerr"
          /\ UNCHANGED <<pmutex, stdinBuf, accepted>>
     ELSE IF Len(stdinBuf[Cmd]) < StdinCap
     THEN /\ stdinBuf' = [stdinBuf EXCEPT ![Cmd] = PipeWrite(@, i)]
          /\ accepted' = [accepted EXCEPT ![Cmd] = Append(@, i)]
          /\ hres' = "ok"
          /\ UNCHANGED pmutex
     ELSE /\ pmutex' = Driver
          /\ hres' = "blocked"
          /\ UNCHANGED <<stdinBuf, accepted>>

\* PTY.WriteInput of input i: Lock, the not-running error, otherwise
\* p.Stdin.Write, which fails on a closed or broken pipe and blocks, with
\* PTY.mutex held, while the pipe is full
WriteInput(i) ==
  /\ pmutex = Free
  /\ IF ~Running \/ Cmd = NoCmd
     THEN /\ hres' = "notrunning"
          /\ UNCHANGED <<pmutex, stdinBuf, accepted>>
     ELSE IF WriteFails(Cmd)
     THEN /\ hres' = "ioerr"
          /\ UNCHANGED <<pmutex, stdinBuf, accepted>>
     ELSE IF Len(stdinBuf[Cmd]) < StdinCap
     THEN /\ stdinBuf' = [stdinBuf EXCEPT ![Cmd] = PipeWrite(@, i)]
          /\ accepted' = [accepted EXCEPT ![Cmd] = Append(@, i)]
          /\ hres' = "ok"
          /\ UNCHANGED pmutex
     ELSE /\ pmutex' = Driver
          /\ hres' = "blocked"
          /\ UNCHANGED <<stdinBuf, accepted>>

\* the blocked p.Stdin.Write of WriteInput returns: the pipe has room again,
\* or it is closed or broken; the deferred Unlock
WriteInputResume(i) ==
  /\ pmutex = Driver
  /\ hres = "blocked"
  /\ IF WriteFails(Cmd)
     THEN /\ hres' = "ioerr"
          /\ UNCHANGED <<stdinBuf, accepted>>
     ELSE /\ Len(stdinBuf[Cmd]) < StdinCap
          /\ stdinBuf' = [stdinBuf EXCEPT ![Cmd] = PipeWrite(@, i)]
          /\ accepted' = [accepted EXCEPT ![Cmd] = Append(@, i)]
          /\ hres' = "ok"
  /\ pmutex' = Free

\* ------------------------------------------ PTYHandler on readPump's thread

\* PTYHandler.sendError on the connection of the frame being handled
sendError(m) ==
  /\ SendMessage(Session)
  /\ emitted' = IF Enqueues(Session) THEN Append(emitted, m) ELSE emitted

\* readPump: ReadMessage returns the next text frame of the peer
FrameRead ==
  /\ rp[Session] = "read"
  /\ hpc = "idle"
  /\ transport[Session] = "open"
  /\ inbox[Session] = <<>>
  /\ arrived' = [arrived EXCEPT ![Session] = @ + 1]
  /\ handled' = [handled EXCEPT ![Session] = Append(@, arrived[Session] + 1)]
  /\ UNCHANGED inbox

\* HandleMessage is entered with the frame and has a session to work on
FrameAccepted ==
  /\ rp' = [rp EXCEPT ![Session] = "handle"]
  /\ rcur' = [rcur EXCEPT ![Session] = arrived[Session] + 1]
  /\ active' = [active EXCEPT ![Session] = @ + 1]

\* HandleMessage returns to the loop of readPump
HandlerReturn ==
  /\ rp' = [rp EXCEPT ![Session] = "read"]
  /\ rcur' = [rcur EXCEPT ![Session] = 0]
  /\ active' = [active EXCEPT ![Session] = @ - 1]
  /\ hpc' = "idle"
  /\ hkind' = "none"
  /\ restart' = FALSE
  /\ UNCHANGED <<inbox, arrived, handled>>

\* HandleMessage for a frame of type "command" naming executable exe:
\* GetPTY, then handleCommand; without a session the frame is answered with
\* the error "PTY session not found"
ReadCommand(exe) ==
  /\ FrameRead
  /\ nCmds < MaxCmds
  /\ nCmds' = nCmds + 1
  /\ IF Session \in ptys
     THEN /\ FrameAccepted
          /\ hpc' = "cmdCheck"
          /\ hkind' = exe
          /\ UNCHANGED <<queueVars, panicked, emitted>>
     ELSE /\ sendError(Msg("error", NoCmd, 0))
          /\ UNCHANGED <<rp, rcur, active, hpc, hkind>>
  /\ UNCHANGED <<wsVars, sessVars, procVars, restart, hres, nInputs,
                 taskVars, accepted, parseVars, timeVars, lockVars>>

\* handleCommand: "if pty.Running", read without PTY.mutex
CommandCheck ==
  /\ hpc = "cmdCheck"
  /\ restart' = Running
  /\ hpc' = IF Running THEN "cmdStop" ELSE "cmdStart"
  /\ UNCHANGED <<wsVars, queueVars, readVars, panicked, sessVars, procVars,
                 hkind, hres, nCmds, nInputs, taskVars, histVars, parseVars,
                 timeVars, lockVars>>

\* handleCommand: pty.Stop() is called
CommandStop ==
  /\ hpc = "cmdStop"
  /\ StopBegin(Driver)
  /\ hpc' = IF stopPc' = "idle" THEN "cmdStart" ELSE "cmdStopping"
  /\ UNCHANGED <<wsVars, queueVars, readVars, panicked, Cmd, pconn, proc,
                 exitCode, pipeBuf, nLines, stdinBuf, stdinGot, hkind,
                 restart, hres, nCmds, nInputs, taskVars, histVars,
                 parseVars, timeVars, lockVars>>

\* handleCommand: pty.Stop() returns; the time.Sleep of 100 ms that follows
\* orders nothing, the thread simply goes on to Start afterwards
CommandStopEnd ==
  /\ hpc = "cmdStopping"
  /\ StopEnd(Driver)
  /\ hpc' = "cmdStart"
  /\ UNCHANGED <<wsVars, queueVars, readVars, panicked, goos, Cmd, pconn,
                 proc, sig, exitCode, pipeBuf, nLines, stdinBuf, stdinGot,
                 hkind, restart, hres, nCmds, nInputs, taskVars, histVars,
                 parseVars, timeVars, lockVars>>

\* handleCommand: pty.Start is called
CommandStart ==
  /\ hpc = "cmdStart"
  /\ StartBegin
  /\ hpc' = IF Running THEN "cmdFail" ELSE "cmdSpawn"
  /\ UNCHANGED <<wsVars, queueVars, readVars, panicked, goos, Running,
                 stopPc, pconn, sig, exitCode, pipeBuf, nLines, stdinBuf,
                 stdinGot, hkind, restart, nCmds, nInputs, taskVars,
                 histVars, parseVars, timeVars, lockVars>>

\* handleCommand: pty.Start returns, with the process running or an error
CommandSpawn ==
  /\ hpc = "cmdSpawn"
  /\ StartEnd(hkind)
  /\ hpc' = IF hkind = "good" THEN "cmdRead" ELSE "cmdFail"
  /\ UNCHANGED <<wsVars, queueVars, readVars, panicked, goos, Cmd, stopPc,
                 pconn, sig, exitCode, pipeBuf, nLines, stdinBuf, stdinGot,
                 hkind, restart, nCmds, nInputs, taskVars, histVars,
                 parseVars, timeVars, lockVars>>

\* handleCommand: sendError("Failed to start command: ...") and return
CommandFail ==
  /\ hpc = "cmdFail"
  /\ sendError(Msg("error", Cmd, 0))
  /\ HandlerReturn
  /\ UNCHANGED <<wsVars, sessVars, procVars, hres, nCmds, nInputs, taskVars,
                 accepted, parseVars, timeVars, lockVars>>

\* the three tasks of a ReadOutput call, started but not yet run
NewTask == [pc |-> "new", g |-> NoCmd, x |-> 0]

\* "go pty.ReadOutput()": the stdout scan, stderr scan and exit-wait tasks
\* of the call are started
ReadOutput ==
  /\ nReads < MaxCmds
  /\ nReads' = nReads + 1
  /\ scan' = [scan EXCEPT ![nReads + 1] = [s \in Streams |-> NewTask]]
  /\ ew' = [ew EXCEPT ![nReads + 1] = NewTask]

\* handleCommand: go pty.ReadOutput()
CommandReadOutput ==
  /\ hpc = "cmdRead"
  /\ ReadOutput
  /\ hpc' = "cmdInfo"
  /\ UNCHANGED <<wsVars, queueVars, readVars, panicked, sessVars, procVars,
                 hkind, restart, hres, nCmds, nInputs, histVars, parseVars,
                 timeVars, lockVars>>

\* handleCommand: pty.sendMessage of the "Command started" info message
\* and return
CommandInfo ==
  /\ hpc = "cmdInfo"
  /\ sendMessage(Msg("started", Cmd, 0))
  /\ HandlerReturn
  /\ UNCHANGED <<wsVars, sessVars, procVars, hres, nCmds, nInputs, taskVars,
                 accepted, parseVars, timeVars, lockVars>>

\* HandleMessage for a frame of type "input" whose data is a string: GetPTY,
\* then handleInput
ReadInput ==
  /\ FrameRead
  /\ nInputs < MaxInputs
  /\ nInputs' = nInputs + 1
  /\ IF Session \in ptys
     THEN /\ FrameAccepted
          /\ hpc' = "input"
          /\ UNCHANGED <<queueVars, panicked, emitted>>
     ELSE /\ sendError(Msg("error", NoCmd, 0))
          /\ UNCHANGED <<rp, rcur, active, hpc>>
  /\ UNCHANGED <<wsVars, sessVars, procVars, hkind, restart, hres, nCmds,
                 taskVars, accepted, parseVars, timeVars, lockVars>>

\* handleInput: pty.WriteInput(input) is called; when it returns nil the
\* handler returns without a message
InputWrite ==
  /\ hpc = "input"
  /\ WriteInput(nInputs)
  /\ IF hres' = "ok"
     THEN HandlerReturn
     ELSE /\ hpc' = IF hres' = "blocked" THEN "inputBlocked" ELSE "inputFail"
          /\ UNCHANGED <<readVars, hkind, restart>>
  /\ UNCHANGED <<wsVars, queueVars, panicked, goos, Running, Cmd, stopPc,
                 pconn, proc, sig, exitCode, pipes, pipeBuf, nLines,
                 stdinGot, nCmds, nInputs, taskVars, emitted, parseVars,
                 timeVars, lockVars>>

\* handleInput: the blocked write of pty.WriteInput returns
InputResume ==
  /\ hpc = "inputBlocked"
  /\ WriteInputResume(nInputs)
  /\ IF hres' = "ok"
     THEN HandlerReturn
     ELSE /\ hpc' = "inputFail"
          /\ UNCHANGED <<readVars, hkind, restart>>
  /\ UNCHANGED <<wsVars, queueVars, panicked, goos, Running, Cmd, stopPc,
                 pconn, proc, sig, exitCode, pipes, pipeBuf, nLines,
                 stdinGot, nCmds, nInputs, taskVars, emitted, parseVars,
                 timeVars, lockVars>>

\* handleInput: sendError("Failed to write input: ...") and return
InputFail ==
  /\ hpc = "inputFail"
  /\ sendError(Msg("error", Cmd, nInputs))
  /\ HandlerReturn
  /\ UNCHANGED <<wsVars, sessVars, procVars, hres, nCmds, nInputs, taskVars,
                 accepted, parseVars, timeVars, lockVars>>

\* frames HandleMessage answers without calling a method of the session: a
\* non-text frame, text that is not JSON, a message of unknown type, and a
\* command or input message whose data has the wrong form
FrameKinds == {"binary", "malformed", "unknown", "payload"}

\* readPump: ReadMessage returns such a frame and HandleMessage is entered
ReadFrame(kind) ==
  /\ FrameRead
  /\ arrived[Session] < MaxFrames
  /\ FrameAccepted
  /\ hpc' = "frame"
  /\ hkind' = kind
  /\ UNCHANGED <<wsVars, queueVars, panicked, sessVars, procVars, restart,
                 hres, nCmds, nInputs, taskVars, histVars, parseVars,
                 timeVars, lockVars>>

\* a HandleMessage that drops a frame it cannot decode without an answer
FrameReply_SilentDecode ==
  /\ hpc = "frame"
  /\ IF hkind \in {"binary", "malformed"}
     THEN UNCHANGED <<queueVars, panicked, emitted>>
     ELSE sendError(Msg("error", NoCmd, rcur[Session]))
  /\ HandlerReturn
  /\ UNCHANGED <<wsVars, sessVars, procVars, hres, nCmds, nInputs, taskVars,
                 accepted,
                 parseVars, timeVars, lockVars>>

\* HandleMessage: "return nil" for a non-text frame, sendError for the
\* others ("Invalid message format", "Unknown message type", "Invalid
\* command data format", "Invalid input data format", or "PTY session not
\* found"); readPump logs a returned error and goes on
FrameReply ==
  /\ hpc = "frame"
  /\ IF hkind = "binary"
     THEN UNCHANGED <<queueVars, panicked, emitted>>
     ELSE sendError(Msg("error", NoCmd, rcur[Session]))
  /\ HandlerReturn
  /\ UNCHANGED <<wsVars, sessVars, procVars, hres, nCmds, nInputs, taskVars,
                 accepted, parseVars, timeVars, lockVars>>

\* --------------------------------------------------- the tasks of ReadOutput

\* frame of a step of a ReadOutput task that sends nothing
taskFrame == <<wsVars, queueVars, readVars, panicked, drvVars, histVars>>

\* a scan task starts: bufio.NewScanner(p.Stdout) (or p.Stderr) takes the
\* pipe the session holds at that moment
ScanStart(r, s) ==
  /\ scan[r][s].pc = "new"
  /\ Cmd # NoCmd
  /\ scan' = [scan EXCEPT ![r][s] = [pc |-> "scan", g |-> Cmd, x |-> 0]]
  /\ UNCHANGED <<taskFrame, sessVars, procVars, nReads, ew, parseVars,
                 timeVars, lockVars>>

\* scanner.Scan() returns true: the next line is taken from the pipe
ScanLine(r, s) ==
  /\ scan[r][s].pc = "scan"
  /\ LET g == scan[r][s].g IN
       /\ pipes[g] = "open"
       /\ pipeBuf[g][s] # <<>>
       /\ scan' = [scan EXCEPT ![r][s] =
                     [pc |-> "check", g |-> g, x |-> Head(pipeBuf[g][s])]]
       /\ pipeBuf' = [pipeBuf EXCEPT ![g][s] = Tail(@)]
  /\ UNCHANGED <<taskFrame, sessVars, proc, sig, exitCode, pipes, nLines,
                 stdinBuf, stdinGot, nReads, ew, parseVars, timeVars,
                 lockVars>>

\* scanner.Scan() returns false: the read end has been closed, or the pipe
\* is empty and its writer has ended; the task is over
ScanEnd(r, s) ==
  /\ scan[r][s].pc = "scan"
  /\ LET g == scan[r][s].g IN
       \/ pipes[g] # "open"
       \/ pipeBuf[g][s] = <<>> /\ proc[g] # "alive"
  /\ scan' = [scan EXCEPT ![r][s] = DoneTask]
  /\ UNCHANGED <<taskFrame, sessVars, procVars, nReads, ew, parseVars,
                 timeVars, lockVars>>

\* scan loop: "if !p.Running { break }", read without PTY.mutex
ScanCheck(r, s) ==
  /\ scan[r][s].pc = "check"
  /\ scan' = [scan EXCEPT ![r][s] =
                IF Running THEN [@ EXCEPT !.pc = "send"] ELSE DoneTask]
  /\ UNCHANGED <<taskFrame, sessVars, procVars, nReads, ew, parseVars,
                 timeVars, lockVars>>

\* scan loop: p.sendMessage of the stdout (stderr) message with the line
ScanSend(r, s) ==
  /\ scan[r][s].pc = "send"
  /\ sendMessage(Msg(s, scan[r][s].g, scan[r][s].x))
  /\ scan' = [scan EXCEPT ![r][s].pc = "scan"]
  /\ UNCHANGED <<wsVars, readVars, sessVars, procVars, drvVars, nReads, ew,
                 accepted, parseVars, timeVars, lockVars>>

\* the exit-wait task starts: "if p.Cmd != nil" takes the exec.Cmd the
\* session holds at that moment
ExitStart(r) ==
  /\ ew[r].pc = "new"
  /\ ew' = [ew EXCEPT ![r] = IF Cmd = NoCmd THEN DoneTask
                              ELSE [pc |-> "wait", g |-> Cmd, x |-> 0]]
  /\ UNCHANGED <<taskFrame, sessVars, procVars, nReads, scan, parseVars,
                 timeVars, lockVars>>

\* exit code the exit-wait task derives from the result of Cmd.Wait(): the
\* status of the process when this Wait collected it, 0 for a nil error and
\* for every error that is not an *exec.ExitError
WaitCode(g) == IF proc[g] = "zombie" THEN exitCode[g] ELSE 0

\* the exit-wait task: p.Cmd.Wait() returns (at once when the exec.Cmd has
\* no process or has been waited for)
ExitWait(r) ==
  /\ ew[r].pc = "wait"
  /\ proc[ew[r].g] # "alive"
  /\ CmdWait(ew[r].g)
  /\ ew' = [ew EXCEPT ![r].pc = "send", ![r].x = WaitCode(ew[r].g)]
  /\ UNCHANGED <<taskFrame, sessVars, sig, exitCode, pipeBuf, nLines,
                 stdinBuf, stdinGot, nReads, scan, parseVars, timeVars,
                 lockVars>>

\* the exit-wait task: p.sendMessage of the exit message
ExitSend(r) ==
  /\ ew[r].pc = "send"
  /\ sendMessage(Msg("exit", ew[r].g, ew[r].x))
  /\ ew' = [ew EXCEPT ![r].pc = "clear"]
  /\ UNCHANGED <<wsVars, readVars, sessVars, procVars, drvVars, nReads,
                 scan, accepted, parseVars, timeVars, lockVars>>

\* the exit-wait task: p.Running = false, written without PTY.mutex
ExitClear(r) ==
  /\ ew[r].pc = "clear"
  /\ Running' = FALSE
  /\ ew' = [ew EXCEPT ![r].pc = "done", ![r].x = 0]
  /\ UNCHANGED <<taskFrame, goos, Cmd, pmutex, stopPc, pconn, procVars,
                 nReads, scan, parseVars, timeVars, lockVars>>

\* ------------------------------------------------------- the child processes

\* frame of a step of a child process
procFrame == <<wsVars, queueVars, readVars, panicked, sessVars, drvVars,
               taskVars, histVars>>

\* the process writes its next line to its stdout or stderr pipe
ProcWrite(g, s) ==
  /\ proc[g] = "alive"
  /\ nLines[g] < MaxLines
  /\ nLines' = [nLines EXCEPT ![g] = @ + 1]
  /\ pipeBuf' = [pipeBuf EXCEPT ![g][s] = Append(@, nLines[g] + 1)]
  /\ UNCHANGED <<procFrame, proc, sig, exitCode, pipes, stdinBuf, stdinGot,
                 parseVars, timeVars, lockVars>>

\* the bytes a read of the stdin pipe returns
PipeRead(buf) == Head(buf)

\* the process reads from its stdin pipe
ProcRead(g) ==
  /\ proc[g] = "alive"
  /\ stdinBuf[g] # <<>>
  /\ LET i == PipeRead(stdinBuf[g]) IN
       /\ stdinGot' = [stdinGot EXCEPT ![g] = Append(@, i)]
       /\ stdinBuf' = [stdinBuf EXCEPT ![g] = SelectSeq(@, LAMBDA y : y # i)]
  /\ UNCHANGED <<procFrame, proc, sig, exitCode, pipes, pipeBuf, nLines,
                 parseVars, timeVars, lockVars>>

\* the process ends on its own with exit code code
ProcExit(g, code) ==
  /\ proc[g] = "alive"
  /\ proc' = [proc EXCEPT ![g] = "zombie"]
  /\ exitCode' = [exitCode EXCEPT ![g] = code]
  /\ UNCHANGED <<procFrame, sig, pipes, pipeBuf, nLines, stdinBuf, stdinGot,
                 parseVars, timeVars, lockVars>>

\* the process is ended by the signal it was sent (SIGKILL cannot be
\* ignored, SIGTERM can)
ProcKilled(g) ==
  /\ proc[g] = "alive"
  /\ sig[g] # "none"
  /\ proc' = [proc EXCEPT ![g] = "zombie"]
  /\ exitCode' = [exitCode EXCEPT ![g] = SignalExit]
  /\ UNCHANGED <<procFrame, sig, pipes, pipeBuf, nLines, stdinBuf, stdinGot,
                 parseVars, timeVars, lockVars>>

\* ------------------------------------------ HandleClose on Manager.run's task

\* a HandleClose that returns without RemovePTY
HandleCloseReturn_KeepSession ==
  /\ UNCHANGED ptys
  /\ mpc' = "select"
  /\ mcur' = NoConn

\* PTYManager.RemovePTY and the return of HandleClose and handleUnregister
HandleCloseReturn ==
  /\ ptys' = ptys \ {mcur}
  /\ mpc' = "select"
  /\ mcur' = NoConn

\* HandleClose: pty.Stop() is entered once PTY.mutex is free
HandleCloseStop ==
  /\ mpc = "hclose"
  /\ StopBegin(Registry)
  /\ IF stopPc' = "idle"
     THEN HandleCloseReturn
     ELSE /\ mpc' = "hcloseStop"
          /\ UNCHANGED <<ptys, mcur>>
  /\ UNCHANGED <<handlers, nextId, connections, chanVars, connVars,
                 queueVars, readVars, writeVars, bcVars, unregSent,
                 closeCalls, openCalls, createResult, panicked, Cmd, pconn,
                 proc, exitCode, pipeBuf, nLines, stdinBuf, stdinGot,
                 drvVars, taskVars, histVars, parseVars, timeVars, lockVars>>

\* HandleClose: pty.Stop() returns, then RemovePTY
HandleCloseStopEnd ==
  /\ mpc = "hcloseStop"
  /\ StopEnd(Registry)
  /\ HandleCloseReturn
  /\ UNCHANGED <<handlers, nextId, connections, chanVars, connVars,
                 queueVars, readVars, writeVars, bcVars, unregSent,
                 closeCalls, openCalls, createResult, panicked, goos, Cmd,
                 pconn, proc, sig, exitCode, pipeBuf, nLines, stdinBuf,
                 stdinGot, drvVars, taskVars, histVars, parseVars, timeVars,
                 lockVars>>

\* --------------------------------------------- direct callers of the methods

\* frame of a call made on the session by a direct caller
apiFrame == <<wsVars, queueVars, readVars, panicked, taskVars, emitted>>

\* a caller invokes Start(command, args, dir) for executable exe
ApiStart(exe) ==
  /\ hpc = "idle"
  /\ pconn = NoConn
  /\ nCmds < MaxCmds
  /\ nCmds' = nCmds + 1
  /\ StartBegin
  /\ hkind' = exe
  /\ hpc' = IF Running THEN "idle" ELSE "apiSpawn"
  /\ UNCHANGED <<apiFrame, goos, Running, stopPc, pconn, sig, exitCode,
                 pipeBuf, nLines, stdinBuf, stdinGot, restart, nInputs,
                 accepted, parseVars, timeVars, lockVars>>

\* the Start call returns; after a successful Start the caller goes on to
\* ReadOutput
ApiSpawn ==
  /\ hpc = "apiSpawn"
  /\ StartEnd(hkind)
  /\ hpc' = IF hkind = "good" THEN "apiRead" ELSE "idle"
  /\ UNCHANGED <<apiFrame, goos, Cmd, stopPc, pconn, sig, exitCode, pipeBuf,
                 nLines, stdinBuf, stdinGot, hkind, restart, nCmds, nInputs,
                 accepted, parseVars, timeVars, lockVars>>

\* the caller invokes ReadOutput() after its successful Start
ApiReadOutput ==
  /\ hpc = "apiRead"
  /\ ReadOutput
  /\ hpc' = "idle"
  /\ UNCHANGED <<wsVars, queueVars, readVars, panicked, sessVars, procVars,
                 hkind, restart, hres, nCmds, nInputs, histVars, parseVars,
                 timeVars, lockVars>>

\* a caller invokes Stop()
ApiStop ==
  /\ hpc = "idle"
  /\ pconn = NoConn
  /\ StopBegin(Driver)
  /\ hres' = IF stopPc' = "idle" THEN "stopped" ELSE hres
  /\ hpc' = IF stopPc' = "idle" THEN "idle" ELSE "apiStop"
  /\ UNCHANGED <<apiFrame, Cmd, pconn, proc, exitCode, pipeBuf, nLines,
                 stdinBuf, stdinGot, hkind, restart, nCmds, nInputs,
                 accepted, parseVars, timeVars, lockVars>>

\* the Stop call returns after its wait
ApiStopEnd ==
  /\ hpc = "apiStop"
  /\ StopEnd(Driver)
  /\ hres' = "stopped"
  /\ hpc' = "idle"
  /\ UNCHANGED <<apiFrame, goos, Cmd, pconn, proc, sig, exitCode, pipeBuf,
                 nLines, stdinBuf, stdinGot, hkind, restart, nCmds, nInputs,
                 accepted, parseVars, timeVars, lockVars>>

\* --------------------------------------------------------------- parseArgs

\* the runes of an argument string: two letters, the space ' ', the tab
\* '\t' (white space that is not ' '), the double quote '"' and the
\* backslash '\\'
Space == "space"
Tab == "tab"
Quote == "quote"
Backslash == "backslash"
Runes == {"a", "b", Space, Tab, Quote, Backslash}

\* the runes unicode.IsSpace accepts
WhiteSpace == {Space, Tab}

\* the argument strings of at most MaxArgLen runes
ArgStrings == UNION {[1..n -> Runes] : n \in 0..MaxArgLen}

\* strings.TrimSpace: the string without its leading and trailing white space
RECURSIVE TrimLeft(_)
TrimLeft(s) ==
  IF s # <<>> /\ Head(s) \in WhiteSpace THEN TrimLeft(Tail(s)) ELSE s

RECURSIVE TrimRight(_)
TrimRight(s) ==
  IF s # <<>> /\ s[Len(s)] \in WhiteSpace
  THEN TrimRight(SubSeq(s, 1, Len(s) - 1))
  ELSE s

TrimSpace(s) == TrimRight(TrimLeft(s))

\* the locals of parseArgs before the loop
parseStart == [result |-> <<>>, current |-> <<>>, inQuotes |-> FALSE,
               escapeNext |-> FALSE]

\* parseRune with a space that ends the current token even when it is empty
parseRune_EmptyToken(st, r) ==
  IF st.escapeNext
  THEN [st EXCEPT !.current = Append(@, r), !.escapeNext = FALSE]
  ELSE IF r = Backslash THEN [st EXCEPT !.escapeNext = TRUE]
  ELSE IF r = Quote THEN [st EXCEPT !.inQuotes = ~@]
  ELSE IF r = Space
  THEN IF st.inQuotes
       THEN [st EXCEPT !.current = Append(@, r)]
       ELSE [st EXCEPT !.result = Append(@, st.current), !.current = <<>>]
  ELSE [st EXCEPT !.current = Append(@, r)]

\* parseRune with a space that separates inside double quotes too
parseRune_SplitInQuotes(st, r) ==
  IF st.escapeNext
  THEN [st EXCEPT !.current = Append(@, r), !.escapeNext = FALSE]
  ELSE IF r = Backslash THEN [st EXCEPT !.escapeNext = TRUE]
  ELSE IF r = Quote THEN [st EXCEPT !.inQuotes = ~@]
  ELSE IF r = Space
  THEN IF st.current # <<>>
       THEN [st EXCEPT !.result = Append(@, st.current), !.current = <<>>]
       ELSE st
  ELSE [st EXCEPT !.current = Append(@, r)]

\* one iteration of "for _, r := range args": the rune after a backslash is
\* written as it is; a backslash sets escapeNext; a double quote toggles
\* inQuotes; a ' ' is written inside quotes and otherwise ends the current
\* token if it is not empty; every other rune is written
parseRune(st, r) ==
  IF st.escapeNext
  THEN [st EXCEPT !.current = Append(@, r), !.escapeNext = FALSE]
  ELSE IF r = Backslash THEN [st EXCEPT !.escapeNext = TRUE]
  ELSE IF r = Quote THEN [st EXCEPT !.inQuotes = ~@]
  ELSE IF r = Space
  THEN IF st.inQuotes
       THEN [st EXCEPT !.current = Append(@, r)]
       ELSE IF st.current # <<>>
       THEN [st EXCEPT !.result = Append(@, st.current), !.current = <<>>]
       ELSE st
  ELSE [st EXCEPT !.current = Append(@, r)]

\* the loop of parseArgs over the runes of s
RECURSIVE parseLoop(_, _)
parseLoop(st, s) ==
  IF s = <<>> THEN st ELSE parseLoop(parseRune(st, Head(s)), Tail(s))

\* parseArgs(args): nil for a string that is empty after TrimSpace,
\* otherwise the tokens of the loop and the last token if it is not empty
parseArgs(a) ==
  LET t == TrimSpace(a)
      st == parseLoop(parseStart, t)
  IN  IF t = <<>> THEN <<>>
      ELSE IF st.current # <<>> THEN Append(st.result, st.current)
      ELSE st.result

\* handleCommand calls parseArgs(cmdData.Args)
ParseCall ==
  /\ ppc = "call"
  /\ result' = parseArgs(args)
  /\ ppc' = "return"
  /\ UNCHANGED <<wsVars, queueVars, readVars, panicked, ptyVars, args,
                 timeVars, lockVars>>

\* ---------------------------------------------------- deadlines and heartbeat

\* a deadline that is set and has passed
Expired(d) == d # NoDeadline /\ now >= d

timeFrame == <<wsVars, queueVars, readVars, panicked, ptyVars, parseVars>>

\* time passes; the clock is observed from the registration of the first
\* connection on
Tick ==
  /\ connections # {}
  /\ now < MaxTime
  /\ now' = now + TimeStep
  /\ UNCHANGED <<timeFrame, readDeadline, writeDeadline, tickAt, stalled,
                 lastData, nPongs, lockVars>>

\* the peer sends a pong frame while readPump is in a ReadMessage whose
\* deadline has not passed: the pong handler runs,
\* SetReadDeadline(time.Now().Add(60 * time.Second))
PongHandler(c) ==
  /\ rp[c] = "read"
  /\ transport[c] = "open"
  /\ ~Expired(readDeadline[c])
  /\ nPongs < MaxPongs
  /\ nPongs' = nPongs + 1
  /\ readDeadline' = [readDeadline EXCEPT ![c] = now + ReadWait]
  /\ UNCHANGED <<timeFrame, now, writeDeadline, tickAt, stalled, lastData,
                 lockVars>>

\* the peer stops reading: from now on a write to the transport cannot
\* complete
PeerStall(c) ==
  /\ c \in connections
  /\ transport[c] = "open"
  /\ ~stalled[c]
  /\ stalled' = [stalled EXCEPT ![c] = TRUE]
  /\ UNCHANGED <<timeFrame, now, readDeadline, writeDeadline, tickAt,
                 lastData, nPongs, lockVars>>

\* readPump: ReadMessage returns a frame before the read deadline has passed
ReadData(c) ==
  /\ ~Expired(readDeadline[c])
  /\ ReadMessage(c)

\* readPump: ReadMessage fails because the read deadline has passed
ReadTimeout(c) ==
  /\ transport[c] = "open"
  /\ Expired(readDeadline[c])
  /\ ReadError(c)

\* readPump: ReadMessage fails because the transport has been closed
ReadClosed(c) ==
  /\ transport[c] = "closed"
  /\ ReadError(c)

\* writePump: case message, ok := <-c.Send with ok: SetWriteDeadline, then
\* WriteMessage writes the frame, or waits when the peer has stalled
WriteData(c) ==
  /\ wp[c] = "run"
  /\ Send[c] # <<>>
  /\ transport[c] = "open"
  /\ writeDeadline' = [writeDeadline EXCEPT ![c] = now + WriteWait]
  /\ LET f == NextOutbound(Send[c]) IN
       /\ Send' = [Send EXCEPT ![c] = SelectSeq(@, LAMBDA x : x # f)]
       /\ written' = [written EXCEPT ![c] =
                        IF stalled[c] THEN @ ELSE Append(@, f)]
  /\ wp' = [wp EXCEPT ![c] = IF stalled[c] THEN "write" ELSE "run"]
  /\ UNCHANGED <<handlers, nextId, mgrVars, chanVars, connVars, sendClosed,
                 enqueued, sendResult, readVars, bcVars, cbVars,
                 createResult, panicked, ptyVars, parseVars, now,
                 readDeadline, tickAt, stalled, lastData, nPongs, lockVars>>

\* writePump: case <-ticker.C: SetWriteDeadline, then WriteMessage writes
\* the ping frame, or waits when the peer has stalled
WritePing(c) ==
  /\ wp[c] = "run"
  /\ Expired(tickAt[c])
  /\ transport[c] = "open"
  /\ tickAt' = [tickAt EXCEPT ![c] = @ + PingPeriod]
  /\ writeDeadline' = [writeDeadline EXCEPT ![c] = now + WriteWait]
  /\ wp' = [wp EXCEPT ![c] = IF stalled[c] THEN "write" ELSE "run"]
  /\ UNCHANGED <<handlers, nextId, mgrVars, chanVars, connVars, queueVars,
                 readVars, written, bcVars, cbVars, createResult, panicked,
                 ptyVars, parseVars, now, readDeadline, stalled, lastData,
                 nPongs, lockVars>>

\* writePump: the WriteMessage that waits fails, because the write deadline
\* has passed or the transport has been closed; the loop returns
WriteTimeout(c) ==
  /\ wp[c] = "write"
  /\ Expired(writeDeadline[c]) \/ transport[c] = "closed"
  /\ wp' = [wp EXCEPT ![c] = "close"]
  /\ UNCHANGED <<handlers, nextId, mgrVars, chanVars, connVars, queueVars,
                 readVars, written, bcVars, cbVars, createResult, panicked,
                 ptyVars, parseVars, timeVars, lockVars>>

\* ------------------------------------------------------------ specification

ManagerStep ==
  \/ RecvRegister
  \/ RecvUnregister
  \/ handleRegister
  \/ HandleConnection
  \/ handleUnregister

WritePumpStep(c) ==
  \/ WriteFrame(c)
  \/ WriteFrameError(c)
  \/ WriteChanClosed(c)
  \/ WriteTickError(c)
  \/ WriteClose(c)
  \/ WriteCloseResume(c)

BroadcastStep ==
  \/ BroadcastStart
  \/ \E c \in Conns : BroadcastVisit(c)
  \/ BroadcastEnd
  \/ \E c \in Conns : BroadcastCloser(c)
  \/ \E c \in Conns : BroadcastCloserResume(c)

\* The registry with all its connections; their peers send no frames, so
\* every readPump only waits for its read error.
Next ==
  /\ ~panicked
  /\ \/ \E p \in Paths : RegisterHandler(p)
     \/ \E p \in Paths : CreateConnection(p)
     \/ ManagerStep
     \/ \E c \in Conns : ReadError(c)
     \/ \E c \in Conns : ReadCloseResume(c)
     \/ \E c \in Conns : WritePumpStep(c)
     \/ \E c \in Conns : OutputSend(c)
     \/ \E c \in Conns : HandlerClose(c)
     \/ \E c \in Conns : HandlerCloseResume(c)
     \/ BroadcastStep

Spec == Init /\ [][Next]_vars

\* CreateConnection for the first connection only
CreateFirst(p) ==
  /\ nextId = 0
  /\ CreateConnection(p)

\* One connection with its peer: the frames the peer sends are read and
\* handled by readPump while the handler, the session's output tasks and
\* BroadcastToPath put frames on its Send channel.  With a single connection
\* the unregister channel is never full, so close() never waits.
PumpNext ==
  /\ ~panicked
  /\ \/ \E p \in Paths : RegisterHandler(p)
     \/ \E p \in Paths : CreateFirst(p)
     \/ ManagerStep
     \/ \E c \in Conns : PeerSend(c)
     \/ \E c \in Conns : ReadMessage(c)
     \/ \E c \in Conns : HandleMessageReply(c)
     \/ \E c \in Conns : HandleMessageSilent(c)
     \/ \E c \in Conns : ReadError(c)
     \/ \E c \in Conns : WriteFrame(c)
     \/ \E c \in Conns : WriteFrameError(c)
     \/ \E c \in Conns : WriteChanClosed(c)
     \/ \E c \in Conns : WriteTickError(c)
     \/ \E c \in Conns : WriteClose(c)
     \/ \E c \in Conns : OutputSend(c)
     \/ \E c \in Conns : HandlerClose(c)
     \/ BroadcastStart
     \/ \E c \in Conns : BroadcastVisit(c)
     \/ BroadcastEnd
     \/ \E c \in Conns : BroadcastCloser(c)

PumpSpec == Init /\ [][PumpNext]_vars

\* Scheduling: every goroutine that can take its next step eventually takes
\* it.  A read or a ping write on a closed transport eventually fails; on an
\* open transport a failure is up to the peer and is not forced.
Fairness ==
  /\ WF_vars(ManagerStep)
  /\ \A c \in Conns :
       /\ WF_vars(ReadError(c) /\ transport[c] = "closed")
       /\ WF_vars(ReadCloseResume(c))
       /\ WF_vars(WriteFrame(c) \/ WriteFrameError(c))
       /\ WF_vars(WriteChanClosed(c))
       /\ WF_vars(WriteTickError(c) /\ transport[c] = "closed")
       /\ WF_vars(WriteClose(c))
       /\ WF_vars(WriteCloseResume(c))
       /\ WF_vars(HandlerCloseResume(c))
       /\ WF_vars(BroadcastVisit(c))
       /\ WF_vars(BroadcastCloser(c))
       /\ WF_vars(BroadcastCloserResume(c))
  /\ WF_vars(BroadcastEnd)

FairSpec == Spec /\ Fairness

\* The registry while handlers are registered and connections are created
\* by concurrent callers: the Lock and the map store of RegisterHandler are
\* separate steps, and CreateConnection may run between them.  A fatal
\* error of the runtime ends the process.
LookupNext ==
  /\ createResult # "fatal"
  /\ \/ \E p \in Paths : RegisterHandlerLock(p)
     \/ RegisterHandlerStore
     \/ \E p \in Paths : CreateConnection(p)
     \/ ManagerStep
     \/ \E c \in Conns : ReadError(c)
     \/ \E c \in Conns : ReadCloseResume(c)
     \/ \E c \in Conns : WritePumpStep(c)

LookupSpec == Init /\ [][LookupNext]_vars

\* The registry with all its connections while Manager.Stop is called once:
\* connections are created, closed by their creator or by their pumps, and
\* Stop closes the registered ones under the write lock.
StopNext ==
  /\ ~panicked
  /\ \/ \E p \in Paths : RegisterHandler(p)
     \/ \E p \in Paths : CreateConnection(p)
     \/ ManagerStep
     \/ \E c \in Conns : CreatorClose(c)
     \/ \E c \in Conns : HandlerCloseResume(c)
     \/ \E c \in Conns : ReadError(c)
     \/ \E c \in Conns : ReadCloseResume(c)
     \/ \E c \in Conns : WritePumpStep(c)
     \/ ManagerStopLock
     \/ \E c \in Conns : ManagerStopVisit(c)
     \/ \E c \in Conns : ManagerStopResume(c)
     \/ ManagerStopUnlock

\* Scheduling: as Fairness; a Stop that has been called goes on whenever it
\* can.  Whether and when Stop, CreateConnection and Close are called is up
\* to their callers.
StopSpec ==
  /\ Init
  /\ [][StopNext]_vars
  /\ Fairness
  /\ \A c \in Conns : WF_vars(ManagerStopVisit(c))
  /\ \A c \in Conns : WF_vars(ManagerStopResume(c))
  /\ WF_vars(ManagerStopUnlock)

\* One connection whose creator may call Close() before the manager has
\* registered it; the manager takes the pending register and unregister
\* requests in either order.  A connection that is registered while open
\* is used and closed as in PumpSpec.  Scheduling as Fairness.
EarlyCloseNext ==
  /\ ~panicked
  /\ \/ \E p \in Paths : RegisterHandler(p)
     \/ \E p \in Paths : CreateFirst(p)
     \/ ManagerStep
     \/ \E c \in Conns : CreatorClose(c)
     \/ \E c \in Conns : HandlerClose(c)
     \/ \E c \in Conns : OutputSend(c)
     \/ \E c \in Conns : ReadError(c)
     \/ \E c \in Conns : WriteFrame(c)
     \/ \E c \in Conns : WriteFrameError(c)
     \/ \E c \in Conns : WriteChanClosed(c)
     \/ \E c \in Conns : WriteTickError(c)
     \/ \E c \in Conns : WriteClose(c)

EarlyCloseSpec == Init /\ [][EarlyCloseNext]_vars /\ Fairness

\* ------------------------------------------------ specifications of a session

\* the connection of the session is created and registered
SessionSetup ==
  \/ \E p \in Paths : RegisterHandler(p)
  \/ \E p \in Paths : CreateFirst(p)
  \/ RecvRegister
  \/ handleRegister
  \/ HandleConnection

\* readPump's thread inside handleCommand
CommandStep ==
  \/ CommandCheck
  \/ CommandStop
  \/ CommandStopEnd
  \/ CommandStart
  \/ CommandSpawn
  \/ CommandFail
  \/ CommandReadOutput
  \/ CommandInfo

\* readPump's thread inside handleInput
InputStep ==
  \/ ReadInput
  \/ InputWrite
  \/ InputResume
  \/ InputFail

\* the scan tasks started by ReadOutput
ScanStep ==
  \/ \E r \in Calls, s \in Streams : ScanStart(r, s)
  \/ \E r \in Calls, s \in Streams : ScanLine(r, s)
  \/ \E r \in Calls, s \in Streams : ScanEnd(r, s)
  \/ \E r \in Calls, s \in Streams : ScanCheck(r, s)
  \/ \E r \in Calls, s \in Streams : ScanSend(r, s)

\* the exit-wait tasks started by ReadOutput
ExitStep ==
  \/ \E r \in Calls : ExitStart(r)
  \/ \E r \in Calls : ExitWait(r)
  \/ \E r \in Calls : ExitSend(r)
  \/ \E r \in Calls : ExitClear(r)

\* the goroutine and the timer of a Stop call that is waiting
StopStep ==
  \/ StopWaiter
  \/ StopTimeout

\* a child process ends
ProcEnd ==
  \/ \E g \in Gens, code \in ExitCodes : ProcExit(g, code)
  \/ \E g \in Gens : ProcKilled(g)

\* One session whose peer sends command frames only and does not read its
\* connection: every command restarts the process of the one before it.
\* The child processes write nothing, so the scan tasks have nothing to do.
RestartNext ==
  /\ ~panicked
  /\ \/ SessionSetup
     \/ \E exe \in {"good", "bad"} : ReadCommand(exe)
     \/ CommandStep
     \/ ExitStep
     \/ StopStep
     \/ ProcEnd

RestartSpec == Init /\ [][RestartNext]_vars

\* One session whose peer sends command and input frames and does not read
\* its connection; the child processes read their input and write nothing.
InputNext ==
  /\ ~panicked
  /\ \/ SessionSetup
     \/ \E exe \in {"good", "bad"} : nCmds < PtyCmds /\ ReadCommand(exe)
     \/ CommandStep
     \/ InputStep
     \/ ExitStep
     \/ StopStep
     \/ \E g \in Gens : ProcRead(g)
     \/ ProcEnd

InputSpec == Init /\ [][InputNext]_vars

\* One session with one command, whose child process writes lines to its
\* output pipes and ends on its own: the scan tasks and the exit-wait task
\* send the messages, and writePump drains the Send channel.
OutputNext ==
  /\ ~panicked
  /\ \/ SessionSetup
     \/ \E exe \in {"good", "bad"} : nCmds < OutCmds /\ ReadCommand(exe)
     \/ CommandCheck
     \/ CommandStart
     \/ CommandSpawn
     \/ CommandFail
     \/ CommandReadOutput
     \/ CommandInfo
     \/ ScanStep
     \/ ExitStep
     \/ \E g \in Gens, s \in Streams : ProcWrite(g, s)
     \/ \E g \in Gens, code \in ExitCodes : ProcExit(g, code)
     \/ WriteFrame(Session)

OutputSpec == Init /\ [][OutputNext]_vars

\* A PTY built by NewPTY without a connection and driven by direct calls of
\* Start, ReadOutput and Stop, as the tests of the package do.
ApiNext ==
  \/ \E exe \in {"good", "bad"} : nCmds < PtyCmds /\ ApiStart(exe)
  \/ ApiSpawn
  \/ ApiReadOutput
  \/ ApiStop
  \/ ApiStopEnd
  \/ ExitStep
  \/ StopStep
  \/ ProcEnd

ApiSpec == Init /\ [][ApiNext]_vars

\* the manager's task in the unregister case and inside HandleClose
UnregisterStep ==
  \/ RecvUnregister
  \/ handleUnregister
  \/ HandleCloseStop
  \/ HandleCloseStopEnd

\* SIGKILL cannot be caught or ignored: a killed process ends
KillTakesEffect == \E g \in Gens : sig[g] = "kill" /\ ProcKilled(g)

\* One session with one command and input frames, whose connection is closed
\* by writePump (a failed ping) at any moment: handleUnregister calls
\* HandleClose, which stops the process.  The child process may read its
\* input or not, and may ignore SIGTERM.
CloseNext ==
  /\ ~panicked
  /\ \/ SessionSetup
     \/ nCmds < OutCmds /\ ReadCommand("good")
     \/ CommandCheck
     \/ CommandStart
     \/ CommandSpawn
     \/ CommandReadOutput
     \/ CommandInfo
     \/ InputStep
     \/ ExitStep
     \/ StopStep
     \/ \E g \in Gens : ProcRead(g)
     \/ ProcEnd
     \/ WriteTickError(Session)
     \/ WriteClose(Session)
     \/ UnregisterStep

\* Scheduling: every goroutine that can take its next step eventually takes
\* it, the timer of Stop fires, and SIGKILL ends the process.  What the child
\* process does on its own (reading its input, ending) is not forced.
CloseSpec ==
  /\ Init
  /\ [][CloseNext]_vars
  /\ WF_vars(UnregisterStep)
  /\ WF_vars(CommandStep)
  /\ WF_vars(InputWrite \/ InputResume \/ InputFail)
  /\ WF_vars(ExitStep)
  /\ WF_vars(StopStep)
  /\ WF_vars(KillTakesEffect)
  /\ WF_vars(WriteClose(Session))

\* One session with one command whose peer also sends frames the handler
\* cannot use; writePump drains the Send channel.
FrameNext ==
  /\ ~panicked
  /\ \/ SessionSetup
     \/ nCmds < OutCmds /\ ReadCommand("good")
     \/ CommandCheck
     \/ CommandStart
     \/ CommandSpawn
     \/ CommandReadOutput
     \/ CommandInfo
     \/ \E kind \in FrameKinds : ReadFrame(kind)
     \/ FrameReply
     \/ ExitStep
     \/ \E g \in Gens, code \in ExitCodes : ProcExit(g, code)
     \/ WriteFrame(Session)

FrameSpec == Init /\ [][FrameNext]_vars

\* the session's process has ended on its own and the exit-wait task has
\* cleared the running flag
OwnExitCleared ==
  /\ Cmd # NoCmd
  /\ Exited(Cmd)
  /\ sig[Cmd] = "none"
  /\ ~Running
  /\ \E r \in Calls : ew[r].g = Cmd /\ ew[r].pc = "done"

\* the peer sends a command frame to a session that has not run a command
\* or whose process has ended on its own, after writePump has written the
\* messages of that process
NextCommand ==
  /\ nCmds < PtyCmds
  /\ Session \in ptys
  /\ nCmds = 0 \/ (OwnExitCleared /\ Send[Session] = <<>>)
  /\ ReadCommand("good")

\* One session whose peer sends the next command frame only after the
\* process of the one before has ended on its own and its exit-wait task has
\* finished, as TestStandalonePTY_MultipleCommands does with its sleep; the
\* processes write to stdout, end with code 0 and writePump drains the Send
\* channel.
SequenceNext ==
  /\ ~panicked
  /\ \/ SessionSetup
     \/ NextCommand
     \/ CommandCheck
     \/ CommandStart
     \/ CommandSpawn
     \/ CommandReadOutput
     \/ CommandInfo
     \/ ScanStep
     \/ ExitStep
     \/ \E g \in Gens : ProcWrite(g, "stdout")
     \/ \E g \in Gens : ProcExit(g, 0)
     \/ WriteFrame(Session)

SequenceSpec == Init /\ [][SequenceNext]_vars

\* One connection and its clock: the peer may send data frames and pongs or
\* stay silent, and may stop reading; the peer sends at most one data frame
\* and the handler answers no frame.
HeartbeatNext ==
  /\ ~panicked
  /\ \/ \E p \in Paths : RegisterHandler(p)
     \/ \E p \in Paths : CreateFirst(p)
     \/ ManagerStep
     \/ Tick
     \/ \E c \in Conns : arrived[c] = 0 /\ PeerSend(c)
     \/ \E c \in Conns : PongHandler(c)
     \/ \E c \in Conns : PeerStall(c)
     \/ \E c \in Conns : ReadData(c)
     \/ \E c \in Conns : HandleMessageSilent(c)
     \/ \E c \in Conns : ReadTimeout(c)
     \/ \E c \in Conns : ReadClosed(c)
     \/ \E c \in Conns : WriteData(c)
     \/ \E c \in Conns : WritePing(c)
     \/ \E c \in Conns : WriteTimeout(c)
     \/ \E c \in Conns : WriteChanClosed(c)
     \/ \E c \in Conns : WriteClose(c)

\* Scheduling: the clock advances and every goroutine that can take its next
\* step eventually takes it; what the peer does is not forced.
HeartbeatSpec ==
  /\ Init
  /\ [][HeartbeatNext]_vars
  /\ WF_vars(ManagerStep)
  /\ WF_vars(Tick)
  /\ \A c \in Conns :
       /\ WF_vars(ReadData(c))
       /\ WF_vars(HandleMessageSilent(c))
       /\ WF_vars(ReadTimeout(c))
       /\ WF_vars(ReadClosed(c))
       /\ WF_vars(WriteData(c))
       /\ WF_vars(WritePing(c))
       /\ WF_vars(WriteTimeout(c))
       /\ WF_vars(WriteChanClosed(c))
       /\ WF_vars(WriteClose(c))

\* parseArgs alone: one call for every argument string of at most MaxArgLen
\* runes
ParseInit ==
  /\ ServerInit
  /\ args \in ArgStrings
  /\ result = <<>>
  /\ ppc = "call"

ParseSpec == ParseInit /\ [][ParseCall]_vars

\* ------------------------------------------------------------------ claims

\* the steps in which SendMessage is called on connection c and returns
SendCall(c) ==
  \/ OutputSend(c)
  \/ mcur = c /\ HandleConnection
  \/ HandleMessageReply(c)

\* a SendMessage call on c is in progress on the manager's task
SendPending(c) == mpc = "connect" /\ mcur = c

\* C1: a SendMessage call made after the closed flag is set returns the
\* "connection is closed" error, enqueues nothing and does not panic, and it
\* does not block: it never has to wait for c.mutex.
C1_SendAfterClose ==
  /\ [][\A c \in Conns : (closed[c] /\ SendCall(c)) =>
          (sendResult' = "closed" /\ Send' = Send /\ ~panicked')]_vars
  /\ [](\A c \in Conns : (closed[c] /\ SendPending(c)) => cmutex[c] = Free)

\* C2: once the closed flag of a connection is set, no frame is added to its
\* Send queue any more, by SendMessage or by BroadcastToPath.
C2_NoEnqueueAfterClosed ==
  [][\A c \in Conns : closed[c] => enqueued'[c] = enqueued[c]]_vars

\* C3: SendMessage on an open connection whose Send queue is full returns the
\* "send buffer is full" error without waiting; the queue, the closed flag,
\* the registry and the unregister channel are unchanged and no close() is
\* started.
C3_FullQueueError ==
  /\ [][\A c \in Conns :
          (~closed[c] /\ Len(Send[c]) = SendCap /\ SendCall(c)) =>
            /\ sendResult' = "full"
            /\ Send' = Send
            /\ enqueued' = enqueued
            /\ closed' = closed
            /\ transport' = transport
            /\ connections' = connections
            /\ unregister' = unregister
            /\ bcClosers' = bcClosers]_vars
  /\ [](\A c \in Conns : ~closed[c] => cmutex[c] = Free)

\* C3 witness: SendMessage has just returned "send buffer is full" on a
\* registered, open connection whose queue is full
C3_Witness ==
  /\ sendResult = "full"
  /\ \E c \in connections : ~closed[c] /\ Len(Send[c]) = SendCap

\* C4: BroadcastToPath enqueues the message exactly once on every visited
\* connection whose queue has room and starts close() for exactly the
\* connections whose queue is full, without waiting; a connection whose
\* close() it started is eventually closed and unregistered.
C4_BroadcastFullQueue ==
  /\ [][\A c \in Conns : BroadcastVisit(c) =>
          /\ \A d \in Conns \ {c} :
               Send'[d] = Send[d] /\ bcClosers'[d] = bcClosers[d]
          /\ closed' = closed
          /\ IF Len(Send[c]) < SendCap
             THEN /\ Send'[c] = Append(Send[c], enqueued[c] + 1)
                  /\ bcClosers'[c] = bcClosers[c]
             ELSE /\ Send'[c] = Send[c]
                  /\ bcClosers'[c] = bcClosers[c] + 1]_vars
  /\ \A c \in Conns :
       (bcClosers[c] > 0) ~> (closed[c] /\ c \notin connections)

C6_PumpsTerminate ==
  /\ [](\A c \in Conns : closed[c] => transport[c] = "closed")
  /\ \A c \in Conns : closed[c] ~> (rp[c] = "done" /\ wp[c] = "done")

\* C7: a registered connection whose closed flag is set is eventually
\* removed from the registry, and a removed connection never reappears.
C7_ClosedLeavesRegistry ==
  /\ \A c \in Conns : (closed[c] /\ c \in connections) ~> (c \notin connections)
  /\ [][\A c \in Conns :
          (closeCalls[c] > 0 /\ c \notin connections) =>
            c \notin connections']_vars

\* C8: CreateConnection for a path without a handler returns an error and
\* changes nothing else: nothing is put on the register channel, no
\* connection is allocated or stored, no pump is started and no callback
\* runs.
C8_NoHandlerNoEffect ==
  [][\A p \in Paths : (p \notin handlers /\ CreateConnection(p)) =>
       /\ createResult' = "nohandler"
       /\ UNCHANGED <<handlers, nextId, register, unregister, mgrVars,
                      connVars, queueVars, readVars, writeVars, bcVars,
                      cbVars, panicked>>]_vars

\* C8 witness: a CreateConnection call has just failed for want of a handler
\* while another connection is registered
C8_Witness ==
  /\ createResult = "nohandler"
  /\ connections # {}

\* C9: HandleMessage is invoked for the inbound frames of a connection in
\* their arrival order, and never while an earlier invocation for the same
\* connection has not returned.
C9_InboundInOrder ==
  \A c \in Conns :
    /\ active[c] <= 1
    /\ active[c] = 1 <=> rp[c] = "handle"
    /\ \A i \in 1..Len(handled[c]) : handled[c][i] = i

\* C9 witness: the peer has sent all its frames and HandleMessage has been
\* invoked, and has returned, for each of them
C9_Witness ==
  \E c \in Conns :
    /\ arrived[c] = MaxFrames
    /\ Len(handled[c]) = MaxFrames
    /\ active[c] = 0

\* C10: writePump writes the frames of a connection in the order in which
\* they were put on the Send channel, each at most once.
C10_OutboundInOrder ==
  \A c \in Conns :
    /\ Len(written[c]) <= enqueued[c]
    /\ \A i \in 1..Len(written[c]) : written[c][i] = i

\* C10 witness: writePump has written every frame its senders may enqueue,
\* with BroadcastToPath among the callers
C10_Witness ==
  \E c \in Conns :
    /\ Len(written[c]) >= MaxMsgs
    /\ nBcast > 0

\* ------------------------------------------------------- claims on a session

\* the exit-wait task that waited for exec.Cmd g has made its sendMessage
\* call: the exit message of g is on the Send channel, unless the channel
\* was full or the connection closed at that moment
ExitSent(g) == \E r \in Calls : ew[r].g = g /\ ew[r].pc \in {"clear", "done"}

\* C11: when handleCommand restarts a session whose running flag it found
\* set, the exit message of the previous process has been sent by the time
\* pty.Start has the new process running.
C11_ExitBeforeRestart ==
  [][(CommandSpawn /\ restart /\ hkind = "good") => ExitSent(Cmd - 1)]_vars

\* C12: a session never has two live child processes at once: no process is
\* spawned while a process spawned earlier by the session is still alive.
C12_OneLiveProcess ==
  Cardinality({g \in Gens : proc[g] = "alive"}) <= 1

\* C13: Stop() on a session with no running process returns nil and changes
\* nothing: no signal is sent, and the running flag, the process handle, the
\* processes, the pipes and PTY.mutex are as before; a second Stop therefore
\* does the same.
C13_StopNoop ==
  [][(ApiStop /\ StopIsNoop) =>
       (/\ hres' = "stopped"
        /\ hpc' = "idle"
        /\ UNCHANGED <<sessVars, proc, sig, exitCode, pipes>>)]_vars

\* Stop has returned on a session whose first process ended on its own (the
\* exit-wait task cleared the flag) and whose second Start failed
C13_Witness ==
  /\ hres = "stopped"
  /\ hpc = "idle"
  /\ Cmd = 2
  /\ proc[2] = "failed"
  /\ proc[1] = "reaped"
  /\ sig[1] = "none"

\* C14: when Stop() returns on a session whose process was running, the
\* running flag is false, the process has been signalled and has exited, and
\* its stdin, stdout and stderr pipes are closed.
C14_StopPostcondition ==
  [][((ApiStop /\ ~StopIsNoop /\ hpc' = "idle") \/ ApiStopEnd) =>
       (/\ ~Running'
        /\ sig'[Cmd] # "none"
        /\ Exited(Cmd)'
        /\ pipes'[Cmd] = "closed")]_vars

\* C15: a Stop() call always returns: the Stop that HandleClose calls for a
\* closed connection completes, whatever the child process and the exit-wait
\* task do.
C15_StopReturns == (mpc = "hclose") ~> (mpc = "select")

\* C16: Start() called while the running flag is true returns the
\* already-running error and leaves the process handle, the processes, the
\* pipes and the running flag as they were: no second process is spawned.
C16_StartWhileRunning ==
  [][((\E exe \in {"good", "bad"} : ApiStart(exe)) /\ Running) =>
       (/\ hres' = "already"
        /\ hpc' = "idle"
        /\ UNCHANGED <<sessVars, procVars>>)]_vars

\* a second Start has been refused while the first process is running
C16_Witness ==
  /\ hres = "already"
  /\ Running
  /\ Cmd = 1
  /\ proc[1] = "alive"
  /\ nCmds = 2

C19_InputsInOrder ==
  /\ [](\A g \in Gens :
          /\ stdinGot[g] \o stdinBuf[g] = accepted[g]
          /\ \A j, k \in 1..Len(accepted[g]) :
                j < k => accepted[g][j] < accepted[g][k])
  /\ [][\A g \in Gens :
          accepted'[g] # accepted[g] =>
            /\ g = Cmd
            /\ Cmd' = Cmd
            /\ hpc \in {"input", "inputBlocked"}
            /\ stopPc = "idle"
            /\ accepted'[g] = Append(accepted[g], nInputs)]_vars

\* the first process has read inputs 1 and 2 in that order, a command frame
\* has restarted the session, and the second process has read input 3
C19_Witness ==
  /\ stdinGot[1] = <<1, 2>>
  /\ stdinGot[2] = <<3>>
  /\ Exited(1)

\* C20: for a process that wrote its lines and ended with code 0, the exit
\* message with code 0 is enqueued after the messages of all the lines the
\* process wrote: every line is in the history before the exit message and
\* no stdout or stderr message of the process follows it.
C20_OutputThenExit ==
  \A g \in Gens : \A k \in 1..Len(emitted) :
    (emitted[k] = Msg("exit", g, 0) /\ exitCode[g] = 0) =>
      /\ \A l \in 1..nLines[g] : \E j \in 1..(k - 1) :
            /\ emitted[j][1] \in Streams
            /\ emitted[j][2] = g
            /\ emitted[j][3] = l
      /\ \A j \in (k + 1)..Len(emitted) :
            ~(emitted[j][1] \in Streams /\ emitted[j][2] = g)

\* C21: every process gets exactly one exit message: no two exit-wait tasks
\* report on the same process, the code of the message is the exit code of
\* the process, and once the task of the session's current process has
\* finished the running flag is false.
C21_OneExitMessage ==
  /\ \A r1, r2 \in Calls :
        (r1 # r2 /\ ew[r1].g # NoCmd /\ ew[r2].g # NoCmd) =>
          ew[r1].g # ew[r2].g
  /\ \A r \in Calls :
        ew[r].pc \in {"send", "clear"} => ew[r].x = exitCode[ew[r].g]
  /\ \A r \in Calls :
        (ew[r].pc = "done" /\ ew[r].g = Cmd /\ pmutex = Free) => ~Running

C23_ErrorAlwaysSent ==
  [][(FrameReply /\ ~closed[Session]) =>
       (/\ emitted' = Append(emitted, Msg("error", NoCmd, rcur[Session]))
        /\ Len(Send'[Session]) = Len(Send[Session]) + 1)]_vars

\* ------------------------------------------------------ claims on parseArgs

\* the reference tokenizer, stated on the positions of the string.
\* A rune is escaped when the rune before it is a backslash that is not
\* escaped itself.
RECURSIVE Escaped(_, _)
Escaped(t, i) ==
  IF i = 1 THEN FALSE ELSE t[i - 1] = Backslash /\ ~Escaped(t, i - 1)

\* a rune is quoted when an odd number of unescaped double quotes precede it
Quoted(t, i) ==
  Cardinality({j \in 1..(i - 1) : t[j] = Quote /\ ~Escaped(t, j)}) % 2 = 1

\* a rune separates two tokens when it is one of the separators seps and
\* is neither escaped nor quoted
Separates(t, i, seps) == t[i] \in seps /\ ~Escaped(t, i) /\ ~Quoted(t, i)

\* a rune belongs to a token unless it separates or is an unescaped
\* backslash or an unescaped double quote
Literal(t, i, seps) ==
  /\ ~Separates(t, i, seps)
  /\ ~(t[i] \in {Backslash, Quote} /\ ~Escaped(t, i))

\* the literal runes at the positions lo..hi
RECURSIVE Literals(_, _, _, _)
Literals(t, lo, hi, seps) ==
  IF lo > hi THEN <<>>
  ELSE (IF Literal(t, lo, seps) THEN <<t[lo]>> ELSE <<>>)
         \o Literals(t, lo + 1, hi, seps)

\* the tokens from position lo on: the pieces between separators that have
\* a literal rune
RECURSIVE TokensFrom(_, _, _)
TokensFrom(t, lo, seps) ==
  IF lo > Len(t) THEN <<>>
  ELSE LET ends == {i \in lo..Len(t) : Separates(t, i, seps)} \cup {Len(t) + 1}
           hi == CHOOSE i \in ends : \A j \in ends : i <= j
           piece == Literals(t, lo, hi - 1, seps)
       IN  (IF piece = <<>> THEN <<>> ELSE <<piece>>)
             \o TokensFrom(t, hi + 1, seps)

\* the string between its first and its last rune that is not a blank
Trimmed(s) ==
  LET keep == {i \in 1..Len(s) : s[i] \notin WhiteSpace}
  IN  IF keep = {} THEN <<>>
      ELSE SubSeq(s, CHOOSE i \in keep : \A j \in keep : i <= j,
                     CHOOSE i \in keep : \A j \in keep : j <= i)

Tokenize(s, seps) == TokensFrom(Trimmed(s), 1, seps)

\* C24: parseArgs returns, for every argument string, the tokens of the
\* reference tokenizer that trims the surrounding blanks and separates on
\* the spaces that are neither quoted nor escaped; "a b" yields [a, b],
\* "\"a b\"" yields [a b], and a blank string yields no argument.
C24_ParseArgsReference ==
  ppc = "return" =>
    /\ result = Tokenize(args, {Space})
    /\ args = <<"a", Space, "b">> => result = <<<<"a">>, <<"b">>>>
    /\ args = <<Quote, "a", Space, "b", Quote>>
         => result = <<<<"a", Space, "b">>>>
    /\ args = <<"a", Backslash, Quote, "b">>
         => result = <<<<"a", Quote, "b">>>>
    /\ args \in {<<>>, <<Space, Space>>, <<Space, Tab>>} => result = <<>>

\* a quoted argument with a space has been parsed into one token
C24_Witness ==
  /\ ppc = "return"
  /\ args = <<Quote, "a", Space, "b", Quote>>
  /\ result = <<<<"a", Space, "b">>>>

\* C25: every white-space rune of the argument string (space or tab) that
\* is neither quoted nor escaped separates two tokens and is part of no
\* token.
C25_WhitespaceSeparates ==
  ppc = "return" => result = Tokenize(args, WhiteSpace)

\* ------------------------------------------------- claims on the heartbeat

\* the peer of c has sent no pong and no data frame for longer than the
\* read timeout
Idle(c) ==
  /\ readDeadline[c] # NoDeadline
  /\ now > readDeadline[c]
  /\ now > lastData[c] + ReadWait

\* C26: a registered connection whose peer has sent no pong and no other
\* traffic for longer than the heartbeat timeout is eventually closed and
\* unregistered, and the step that closes it is the deferred close of
\* writePump after a write that exceeded its write deadline.
C26_IdleClosedByWriteLoop ==
  /\ \A c \in Conns :
       (c \in connections /\ Idle(c)) ~> (closed[c] /\ c \notin connections)
  /\ [][\A c \in Conns :
          (Idle(c) /\ ~closed[c] /\ closed'[c]) =>
            (wp[c] = "close" /\ Expired(writeDeadline[c]))]_vars

\* the peer of c has sent a data frame less than the read timeout after the
\* registration, and less than the read timeout ago, and readPump has read it
DataKeepsArriving(c) ==
  /\ arrived[c] > 0
  /\ inbox[c] = <<>>
  /\ lastData[c] < ReadWait
  /\ now < lastData[c] + ReadWait

\* C30: readPump extends the read deadline on every inbound message, so a
\* connection whose data frames keep arriving at intervals shorter than the
\* read timeout is never closed by the expiry of the read deadline, with or
\* without pongs.
C30_DataKeepsAlive ==
  [][\A c \in Conns : ReadTimeout(c) => ~DataKeepsArriving(c)]_vars

\* --------------------------------------- claims on consecutive commands

\* every command frame has been handled, every process has ended and every
\* task of ReadOutput is over
Quiescent ==
  /\ nCmds = PtyCmds
  /\ hpc = "idle"
  /\ \A g \in Gens : Started(g) => proc[g] = "reaped"
  /\ \A r \in Calls : ew[r].pc \in {"none", "done"}
  /\ \A r \in Calls, s \in Streams : scan[r][s].pc \in {"none", "done"}

\* C27: a Start that follows the own exit of the session's process and the
\* clearing of the running flag succeeds, with no Stop in between, and once
\* all is over the stdout lines of the earlier and of the later process have
\* all been delivered.
C27_SecondCommand ==
  /\ [][(CommandSpawn /\ Cmd > 1) =>
          (/\ hres' = "ok"
           /\ Running'
           /\ stopPc = "idle"
           /\ sig[Cmd - 1] = "none")]_vars
  /\ [](Quiescent =>
          \A g \in Gens : \A l \in 1..nLines[g] :
            \E k \in 1..Len(emitted) : emitted[k] = Msg("stdout", g, l))

\* ------------------------------------------- claims on closed connections

\* the manager has handled the unregister request of the session's
\* connection and HandleClose has returned
Unregistered ==
  /\ closeCalls[Session] > 0
  /\ Session \notin connections
  /\ mpc = "select"

\* no child process of the session is alive
NoneAlive == \A g \in Gens : proc[g] # "alive"

\* C28: a process that is alive when the session's connection closes
\* eventually ends, and from some moment after the connection has been
\* unregistered no child process of the session is alive any more.
C28_CloseTerminates ==
  /\ \A g \in Gens : (closed[Session] /\ proc[g] = "alive") ~> proc[g] # "alive"
  /\ [](Unregistered => <>[]NoneAlive)

\* the manager is inside HandleClose for connection c: c has left the
\* connection registry and its unregister handling is not yet complete
InHandleClose(c) == mcur = c /\ mpc \in {"hclose", "hcloseStop"}

\* C29: every registered connection whose connect callback has returned has
\* a session, a connection whose unregister handling has completed has none,
\* and the keys of the session registry are always among the connections
\* that are registered and not yet completely unregistered.
C29_SessionRegistry ==
  /\ \A c \in connections : ~(mpc = "connect" /\ mcur = c) => c \in ptys
  /\ \A c \in Conns : (closeCalls[c] > 0 /\ ~InHandleClose(c)) => c \notin ptys
  /\ ptys \subseteq {c \in Conns : c \in connections \/ InHandleClose(c)}

\* the session's connection has been unregistered while its process was
\* running: HandleClose has stopped the process and removed the session
C29_Witness ==
  /\ Unregistered
  /\ openCalls[Session] > 0
  /\ sig[1] # "none"
  /\ Session \notin ptys

\* ------------------------------------------------ claims on the close frame

\* C31: when writePump finds its Send channel closed, the transport is still
\* open, so that the close frame it writes reaches the peer.
C31_CloseFrameWritten ==
  [][\A c \in Conns : WriteChanClosed(c) => transport[c] = "open"]_vars

\* ------------------------------------------------- claims on the lock order

\* C32: no handler lookup of CreateConnection overlaps a registration: no
\* CreateConnection reads the handler table while a RegisterHandler call is
\* between its Lock and its Unlock.
C32_LookupUnderLock ==
  [][\A p \in Paths : CreateConnection(p) => regPath = NoPath]_vars

\* C33: p.Running and p.Cmd are written only in steps of a task that holds
\* PTY.mutex, and handleCommand reads p.Running for its restart decision
\* while it holds PTY.mutex.
C33_MutexDiscipline ==
  [][/\ (Running' # Running \/ Cmd' # Cmd) => (pmutex # Free \/ pmutex' # Free)
     /\ CommandCheck => pmutex = Driver]_vars

\* --------------------------------------------- claims on the order of frames

\* C34: HandleConnection has returned for a connection before HandleMessage
\* is first invoked for it, and the welcome message is the first message put
\* on the connection's Send queue.
C34_ConnectBeforeMessages ==
  /\ [][handled'[Session] # handled[Session] => openCalls[Session] > 0]_vars
  /\ [](emitted # <<>> => emitted[1] = Msg("welcome", NoCmd, 0))

\* C35: every stdout, stderr or exit message of a process is preceded in the
\* Send queue by the "Command started" message of that process.
C35_StartedFirst ==
  \A k \in 1..Len(emitted) :
    emitted[k][1] \in Streams \cup {"exit"} =>
      \E j \in 1..(k - 1) : emitted[j] = Msg("started", emitted[k][2], 0)

\* ------------------------------------------- claims on the running flag

\* C36: while no Start or Stop holds PTY.mutex, the running flag is false
\* only if the process the session started last is no longer alive.
C36_FlagOfCurrentProcess ==
  (pmutex = Free /\ ~Running /\ Cmd # NoCmd) => proc[Cmd] # "alive"

\* ------------------------------------------------- claims on Manager.Stop

\* Manager.Stop waits inside close() for room on the full unregister channel
\* while the manager's task, the only receiver of that channel, waits in
\* handleRegister or handleUnregister for Manager.mutex, which Stop holds
StopDeadlock ==
  /\ mstop = "blocked"
  /\ Len(unregister) = UnregisterCap
  /\ mpc \in {"register", "unregister"}

\* C37: a call of Manager.Stop returns, every connection it found registered
\* is eventually removed from the registry, and Stop and the manager's task
\* never wait for each other.
C37_StopTerminates ==
  /\ (mstop \in {"range", "blocked"}) ~> (mstop = "done")
  /\ \A c \in Conns :
       (mstop = "range" /\ c \in stopTodo) ~> (c \notin connections)
  /\ []~StopDeadlock

\* ------------------------------------------ claims on the closed Send channel

\* C38: no task sends on a Send channel that has been closed, and the channel
\* is not closed twice (either would panic); a closed channel belongs to a
\* connection whose closed flag is set and which is not in the registry, and
\* the channel is closed only by the step of handleUnregister that removes
\* the connection from the registry.
C38_NoSendOnClosedChannel ==
  /\ []~panicked
  /\ [](\A c \in Conns : sendClosed[c] => (closed[c] /\ c \notin connections))
  /\ [][\A c \in Conns :
          sendClosed'[c] # sendClosed[c] =>
            /\ mpc = "unregister" /\ mcur = c
            /\ ~bcActive
            /\ c \in connections /\ c \notin connections']_vars

\* a SendMessage call has been refused on a connection whose Send channel is
\* closed, after a broadcast has visited the registry
C38_Witness ==
  /\ \E c \in Conns : sendClosed[c] /\ enqueued[c] > 0
  /\ sendResult = "closed"
  /\ nBcast > 0

\* ------------------------------------------------ claims on an early Close

\* Close() has been called on connection c, which CreateConnection has
\* returned and the manager has not yet registered
EarlyClosed(c) ==
  /\ closed[c]
  /\ openCalls[c] = 0
  /\ c \notin connections
  /\ \/ \E k \in 1..Len(register) : register[k] = c
     \/ mpc = "register" /\ mcur = c

\* C39: a connection closed before the manager has registered it does not
\* stay in the registry: from some moment on it is not registered, it has
\* no session, and HandleClose has been called for it if HandleConnection
\* was.
C39_EarlyClose ==
  \A c \in Conns :
    [](EarlyClosed(c) =>
         <>[](/\ c \notin connections
              /\ c \notin ptys
              /\ closeCalls[c] = openCalls[c]))

\* ------------------------------------------------- claims on empty arguments

\* C40: no token parseArgs returns is the empty string; an empty quoted
\* argument yields no token, so 'a "" b' yields [a, b].
C40_NoEmptyToken ==
  /\ ppc = "return" => \A i \in 1..Len(result) : result[i] # <<>>
  /\ parseArgs(<<"a", Space, Quote, Quote, Space, "b">>) = <<<<"a">>, <<"b">>>>

\* parseArgs has returned [a, b] for 'a ""b', whose second argument starts
\* with an empty quoted string, and a call has returned [b] for '"" b'
C40_Witness ==
  /\ ppc = "return"
  /\ \/ /\ args = <<"a", Space, Quote, Quote, "b">>
        /\ result = <<<<"a">>, <<"b">>>>
     \/ /\ args = <<Quote, Quote, Space, "b">>
        /\ result = <<<<"b">>>>

====
